---- MODULE Spec2Model ----
(***************************************************************************)
(* drift-guardian: the docs-drift function matcher (compareFunctions and   *)
(* the parameter-list normaliser), the logic-drift detector                *)
(* (detectLogicDrift, runDeterministicComparisons, compareValues), the     *)
(* payload-key renames and their allowlist (comparePayloadKeyRenames,      *)
(* compileAllowlist, matchesAllowlist), the docs rule (runDocsRule,        *)
(* resolveFullScan) and the endpoint matcher (compareEndpoints,            *)
(* normalizePath).                                                         *)
(*                                                                         *)
(* Text is a sequence of one-character strings, so that trimming,          *)
(* splitting, joining, case folding and number parsing are computed the    *)
(* way the JavaScript computes them.                                       *)
(***************************************************************************)
EXTENDS Integers, Sequences, FiniteSets, TLC

VARIABLES
    \* compareFunctions (docs drift)
    entities,       \* code entities handed to compareFunctions
    docMatches,     \* what extractDocFunctions' pattern matches in the docs, in order
    fnArgs,         \* [severity, fullScan]: the config severity and the fullScan argument
    fnPc,           \* "ready" | "returned" | "threw"
    fnResults,      \* the array compareFunctions returned
    \* compareValues (logic drift, pure)
    cvIn,           \* [code, policy, compare, valueType]
    cvPc,           \* "ready" | "returned"
    cvOut,          \* the boolean compareValues returned
    \* detectLogicDrift
    ldPc,           \* where detectLogicDrift is: "rule", "diff", "policy", "call", "cmp",
                    \* "buildCode", "buildPolicy", "extract", "evaluate", "llm",
                    \* "returned" or "threw"
    ldConfig,       \* [useLLM, severity]: config.llm && config.llm.enabled && llm, and
                    \* config.output.severity.logicDrift
    ldRule,         \* the rule of this iteration of the loop over rules
    ldRuleIdx,      \* how many rules the loop has taken
    ldCmp,          \* the comparison of this iteration of the loop over comparisons
    ldCmpIdx,       \* how many comparisons of this rule the loop has taken
    ldRegex,        \* [code, policy]: what buildRegex returned for the comparison
    ldValues,       \* [code, policyMatches]: codeValues, and the matches of the policy
                    \* pattern on policyText
    ldSeen,         \* the seen set of runDeterministicComparisons
    ldCmpResults,   \* the results array of runDeterministicComparisons
    ldResults,      \* the results array of detectLogicDrift
    ldScanned,      \* [diff, policy]: a file diff was fetched, a policy file was read
    ldLast,         \* the last comparison evaluated: its inputs and what it pushed
    \* comparePayloadKeyRenames (docs drift)
    pkPc,           \* "compile", "file", "hunk" or "returned"
    pkConfig,       \* [allowlist, docKeys, severity]: the payload-key allowlist entries,
                    \* the keys of docPayloadKeys, config.output.severity.docsDrift
    pkMatchers,     \* what compileAllowlist returned: the RegExp objects and their state
    pkFileIdx,      \* how many changed code files the loop has taken
    pkHunkIdx,      \* how many hunks of the file's diff were finalized
    pkHunk,         \* the last hunk finalized: [removed, added, declared]
    pkRenames,      \* the renames array of findPayloadKeyRenames
    pkResults,      \* the results array of comparePayloadKeyRenames
    \* runDocsRule (docs drift)
    drPc,           \* where runDocsRule is: "start", "extract", "docs", "compare",
                    \* "finish", "returned" or "threw"
    drRule,         \* the rule: [hasDocPatterns, fullScan, fullScanMaxFiles,
                    \* extractFunctions, maxEntities]
    drRepo,         \* [codeFiles, changedFiles, changedDocs]: the files of the repository
                    \* that match rule.codeFiles, the changed files that match them,
                    \* and whether a changed file matches rule.docFiles
    drScan,         \* [resolved, fullScan, codeFilesToScan]: what resolveFullScan returned
    drEntities,     \* the entities extracted from the scanned files
    \* compareEndpoints (docs drift, pure)
    epIn,           \* [entities, docs, severity, fullScan]
    epPc,           \* "ready" | "returned"
    epOut,          \* the array compareEndpoints returned
    \* normalizeParamList (pure)
    npIn,           \* the parameter text
    npPc,           \* "ready" | "once" | "twice" | "threw"
    npOut,          \* [once, twice]: the list, and the list of its comma-joined text
    \* extractEntities (docs drift)
    exPc,           \* "idle", "validate", "extract" or "returned"
    exIn,           \* [content, extractList]: the file's content and rule.extract
    exStep,         \* how many of the safeExtract calls of extractEntities were passed
    exThrows,       \* how many extraction functions threw
    exResults,      \* the results array of extractEntities
    exLog,          \* one record for each safeExtract call made
    \* detectLogicDrift: the files of a run
    ldRun,          \* [changedFiles, repoFiles]: the paths of params.changedFiles and
                    \* the files under repoRoot
    \* Cache (utils/cache.js)
    caEnabled,      \* this.enabled
    caFile,         \* the mtime and size of the source file, or NoFile
    caMem,          \* this.inMemoryCache: the data under each key, NoData when absent
    caDisk,         \* the cache file of each key: [hash, data], or NoEntry
    caOut,          \* [op, key, data]: the last call and what it returned
    caStored,       \* for each key and data, the file's hash when set last stored
                    \* that data under that key
    \* extractMatches (logic drift), one exec at a time
    xmPc,           \* "idle", "build", "loop", "returned" or "threw"
    xmIn,           \* [pattern, text]
    xmRegex,        \* the RegExp object: [quant, global, sticky, lastIndex]
    xmValues        \* the values array

fnVars == <<entities, docMatches, fnArgs, fnPc, fnResults>>
cvVars == <<cvIn, cvPc, cvOut>>
ldVars == <<ldPc, ldConfig, ldRule, ldRuleIdx, ldCmp, ldCmpIdx, ldRegex, ldValues, ldSeen,
            ldCmpResults, ldResults, ldScanned, ldLast>>
pkVars == <<pkPc, pkConfig, pkMatchers, pkFileIdx, pkHunkIdx, pkHunk, pkRenames, pkResults>>
drVars == <<drPc, drRule, drRepo, drScan, drEntities>>
epVars == <<epIn, epPc, epOut>>
npVars == <<npIn, npPc, npOut>>
exVars == <<exPc, exIn, exStep, exThrows, exResults, exLog>>
caVars == <<caEnabled, caFile, caMem, caDisk, caOut, caStored>>
xmVars == <<xmPc, xmIn, xmRegex, xmValues>>
lateVars == <<exVars, ldRun, caVars, xmVars>>
moreVars == <<drVars, epVars, npVars, lateVars>>
vars == <<fnVars, cvVars, ldVars, pkVars, moreVars>>

(***************************************************************************)
(* Characters and strings                                                  *)
(***************************************************************************)
Upper == {"A","B","C","D","E","F","G","H","I","J","K","L","M",
          "N","O","P","Q","R","S","T","U","V","W","X","Y","Z"}
Lower == {"a","b","c","d","e","f","g","h","i","j","k","l","m",
          "n","o","p","q","r","s","t","u","v","w","x","y","z"}
Digits == {"0","1","2","3","4","5","6","7","8","9"}

\* JavaScript \s, restricted to the white space the texts of this model use
IsSpace(c) == c \in {" ", "\t", "\n"}

Max(a, b) == IF a >= b THEN a ELSE b

RECURSIVE TrimLeft(_)
TrimLeft(s) == IF s # <<>> /\ IsSpace(Head(s)) THEN TrimLeft(Tail(s)) ELSE s

RECURSIVE TrimRight(_)
TrimRight(s) ==
    IF s # <<>> /\ IsSpace(s[Len(s)]) THEN TrimRight(SubSeq(s, 1, Len(s) - 1)) ELSE s

\* String.prototype.trim
trim(s) == TrimRight(TrimLeft(s))

\* s.startsWith(p)
startsWith(s, p) == Len(s) >= Len(p) /\ SubSeq(s, 1, Len(p)) = p

\* s.includes(c) for a one-character c
includesChar(s, c) == \E i \in 1..Len(s) : s[i] = c

\* s.replace(/[set]/g, ''): every character of `set` removed
RECURSIVE removeChars(_, _)
removeChars(s, set) ==
    IF s = <<>> THEN <<>>
    ELSE IF Head(s) \in set THEN removeChars(Tail(s), set)
    ELSE <<Head(s)>> \o removeChars(Tail(s), set)

\* s.split(c)[0]: the text before the first c
RECURSIVE beforeFirst(_, _)
beforeFirst(s, c) ==
    IF s = <<>> \/ Head(s) = c THEN <<>>
    ELSE <<Head(s)>> \o beforeFirst(Tail(s), c)

\* s.split(c): the pieces between the occurrences of c (always at least one)
RECURSIVE splitFrom(_, _, _, _, _)
splitFrom(s, c, i, current, parts) ==
    IF i > Len(s) THEN Append(parts, current)
    ELSE IF s[i] = c THEN splitFrom(s, c, i + 1, <<>>, Append(parts, current))
    ELSE splitFrom(s, c, i + 1, Append(current, s[i]), parts)

split(s, c) == splitFrom(s, c, 1, <<>>, <<>>)

\* s.split(/\s+/).filter(Boolean): the white-space separated tokens
RECURSIVE tokensFrom(_, _, _, _)
tokensFrom(s, i, current, parts) ==
    IF i > Len(s) THEN (IF current # <<>> THEN Append(parts, current) ELSE parts)
    ELSE IF IsSpace(s[i])
         THEN tokensFrom(s, i + 1, <<>>,
                         IF current # <<>> THEN Append(parts, current) ELSE parts)
    ELSE tokensFrom(s, i + 1, Append(current, s[i]), parts)

tokens(s) == tokensFrom(s, 1, <<>>, <<>>)

\* parts.join(sep)
RECURSIVE join(_, _)
join(parts, sep) ==
    IF parts = <<>> THEN <<>>
    ELSE IF Len(parts) = 1 THEN parts[1]
    ELSE parts[1] \o sep \o join(Tail(parts), sep)

\* array.filter(Boolean) on an array of strings: the non-empty ones
nonEmpty(parts) == SelectSeq(parts, LAMBDA p : p # <<>>)

\* array.map((part) => part.trim())
trimEach(parts) == [i \in 1..Len(parts) |-> trim(parts[i])]

(***************************************************************************)
(* Parameter-list normalisation (docsDrift.js)                             *)
(***************************************************************************)
\* What normalizeParamName produces where the JavaScript throws a TypeError
\* (stripToken(undefined)): no name is a string longer than one character.
Thrown == <<"TypeError">>

WordChars == Upper \cup Lower \cup Digits \cup {"_", "$", "-"}

RECURSIVE stripLeading(_, _)
stripLeading(s, set) ==
    IF s # <<>> /\ Head(s) \in set THEN stripLeading(Tail(s), set) ELSE s

stripToken(token) ==
    SelectSeq(stripLeading(token, {".", " ", "\t", "\n"}), LAMBDA c : c \in WordChars)

goTypes == {
    <<"s","t","r","i","n","g">>, <<"i","n","t">>, <<"i","n","t","6","4">>,
    <<"i","n","t","3","2">>, <<"i","n","t","1","6">>, <<"i","n","t","8">>,
    <<"u","i","n","t">>, <<"u","i","n","t","6","4">>, <<"u","i","n","t","3","2">>,
    <<"u","i","n","t","1","6">>, <<"u","i","n","t","8">>,
    <<"f","l","o","a","t","6","4">>, <<"f","l","o","a","t","3","2">>,
    <<"b","o","o","l">>, <<"e","r","r","o","r">>, <<"b","y","t","e">>,
    <<"r","u","n","e">>, <<"a","n","y">> }

isGoTypeToken(token) ==
    LET normalized == removeChars(token, {",", ")"})
    IN  /\ token # <<>>
        /\ \/ normalized \in goTypes
           \/ startsWith(normalized, <<"[", "]">>)
           \/ startsWith(normalized, <<"m", "a", "p", "[">>)
           \/ startsWith(normalized, <<"*">>)
           \/ \E c \in {".", "[", "]"} : includesChar(normalized, c)

isTypeToken(token) ==
    LET normalized == removeChars(token, {",", ")"})
    IN  /\ token # <<>>
        /\ \/ startsWith(normalized, <<"[", "]">>)
           \/ startsWith(normalized, <<"*">>)
           \/ startsWith(normalized, <<"m", "a", "p", "[">>)
           \/ \E c \in {".", "<", ">", "[", "]"} : includesChar(normalized, c)
           \/ (normalized # <<>> /\ Head(normalized) \in Upper)

normalizeParamName(text) ==
    LET t0 == trim(text)
        t1 == IF startsWith(t0, <<".", ".", ".">>) THEN SubSeq(t0, 4, Len(t0)) ELSE t0
        t2 == removeChars(t1, {"?"})
        t3 == trim(beforeFirst(t2, "="))
        t4 == IF includesChar(t3, ":") THEN trim(beforeFirst(t3, ":")) ELSE t3
        toks == tokens(t4)
        first == toks[1]
        last == toks[Len(toks)]
    IN  IF t0 = <<>> THEN <<>>
        ELSE IF t3 = <<>> THEN <<>>
        ELSE IF Len(toks) = 0 THEN Thrown    \* tokens[0] is undefined: stripToken throws
        ELSE IF Len(toks) = 1 THEN stripToken(toks[1])
        ELSE IF isGoTypeToken(last) THEN stripToken(first)
        ELSE IF isTypeToken(first) /\ ~isTypeToken(last) THEN stripToken(last)
        ELSE IF isTypeToken(last) /\ ~isTypeToken(first) THEN stripToken(first)
        ELSE stripToken(last)

splitParamsStep(depth, char) ==
    IF char \in {"(", "[", "{", "<"} THEN depth + 1
    ELSE IF char \in {")", "]", "}", ">"} THEN Max(0, depth - 1)
    ELSE depth

RECURSIVE splitParamsFrom(_, _, _, _, _)
splitParamsFrom(text, i, depth, current, parts) ==
    IF i > Len(text) THEN (IF current # <<>> THEN Append(parts, current) ELSE parts)
    ELSE LET d == splitParamsStep(depth, text[i])
         IN  IF text[i] = "," /\ d = 0
             THEN splitParamsFrom(text, i + 1, d, <<>>, Append(parts, current))
             ELSE splitParamsFrom(text, i + 1, d, Append(current, text[i]), parts)

splitParams(text) == splitParamsFrom(text, 1, 0, <<>>, <<>>)

\* The names of a parameter text; a Thrown among them stands for the TypeError
\* that leaves normalizeParamList without a result.
normalizeParamList(text) ==
    IF text = <<>> THEN <<>>
    ELSE LET parts == splitParams(text)
         IN  nonEmpty([i \in 1..Len(parts) |-> normalizeParamName(parts[i])])

paramListThrows(text) ==
    \E i \in 1..Len(normalizeParamList(text)) : normalizeParamList(text)[i] = Thrown

\* signature.match(/\((.*)\)/): the text between the first "(" and the last ")"
firstIndex(s, c) ==
    IF includesChar(s, c) THEN CHOOSE i \in 1..Len(s) : s[i] = c /\ \A j \in 1..(i - 1) : s[j] # c
    ELSE 0
lastIndexOf(s, c) ==
    IF includesChar(s, c)
    THEN CHOOSE i \in 1..Len(s) : s[i] = c /\ \A j \in (i + 1)..Len(s) : s[j] # c
    ELSE 0

extractSignatureParams(signature) ==
    LET open == firstIndex(signature, "(")
        close == lastIndexOf(signature, ")")
    IN  IF open > 0 /\ close > open THEN SubSeq(signature, open + 1, close - 1) ELSE <<>>

paramKey(params) == join(params, <<",">>)

\* Number of items of a that occur in b (an item occurring twice in a counts twice)
intersectionSize(a, b) == Cardinality({i \in 1..Len(a) : \E j \in 1..Len(b) : b[j] = a[i]})

difference(a, b) == SelectSeq(a, LAMBDA item : \A j \in 1..Len(b) : b[j] # item)

paramScore(codeParams, variantParams) ==
    intersectionSize(codeParams, variantParams) * 2
      - (Len(difference(codeParams, variantParams)) + Len(difference(variantParams, codeParams)))

\* The loop of chooseBestParamMatch over docVariants[i..], carrying best and bestScore
RECURSIVE chooseBestFrom(_, _, _, _, _)
chooseBestFrom(codeParams, docVariants, i, best, bestScore) ==
    IF i > Len(docVariants) THEN best
    ELSE LET score == paramScore(codeParams, docVariants[i].params)
         IN  IF score > bestScore
             THEN chooseBestFrom(codeParams, docVariants, i + 1, i, score)
             ELSE chooseBestFrom(codeParams, docVariants, i + 1, best, bestScore)

\* The index in docVariants of the variant chooseBestParamMatch returns
chooseBestParamMatch(codeParams, docVariants) ==
    chooseBestFrom(codeParams, docVariants, 1, 1, -1)

(***************************************************************************)
(* Severity (utils/severity.js)                                            *)
(***************************************************************************)
UpperSeq == <<"A","B","C","D","E","F","G","H","I","J","K","L","M",
              "N","O","P","Q","R","S","T","U","V","W","X","Y","Z">>
LowerSeq == <<"a","b","c","d","e","f","g","h","i","j","k","l","m",
              "n","o","p","q","r","s","t","u","v","w","x","y","z">>

toLowerChar(c) ==
    IF c \in Upper THEN LowerSeq[CHOOSE i \in 1..Len(UpperSeq) : UpperSeq[i] = c] ELSE c

\* String.prototype.toLowerCase
toLowerCase(s) == [i \in 1..Len(s) |-> toLowerChar(s[i])]

sCritical == <<"c","r","i","t","i","c","a","l">>
sError == <<"e","r","r","o","r">>
sWarning == <<"w","a","r","n","i","n","g">>
sInfo == <<"i","n","f","o">>
Severities == {sCritical, sError, sWarning, sInfo}

\* normalize(value) of severity.js; <<>> is the empty string (and undefined)
normalize(value) ==
    IF value = <<>> THEN <<>>
    ELSE IF toLowerCase(value) \in Severities THEN toLowerCase(value)
    ELSE <<>>

\* normalizeSeverity returning the fallback as it is
normalizeSeverityRawFallback(value, fallback) ==
    IF normalize(value) # <<>> THEN normalize(value) ELSE fallback

normalizeSeverity(value, fallback) ==
    IF normalize(value) # <<>> THEN normalize(value)
    ELSE IF normalize(fallback) # <<>> THEN normalize(fallback)
    ELSE sWarning

(***************************************************************************)
(* compareFunctions (docsDrift.js)                                         *)
(***************************************************************************)
\* buildEntity: the signature is name(p1, p2) with the raw parameters split on
\* every comma, trimmed, the empty ones dropped; the bare name without parameters
buildEntity(type, name, params, file) ==
    [type |-> type,
     name |-> name,
     signature |->
        IF params # <<>>
        THEN name \o <<"(">> \o join(nonEmpty(trimEach(split(params, ","))), <<",", " ">>)
                  \o <<")">>
        ELSE name,
     file |-> file]

ignoredDocNames == {
    <<"i","f">>, <<"f","o","r">>, <<"w","h","i","l","e">>, <<"s","w","i","t","c","h">>,
    <<"c","a","t","c","h">>, <<"r","e","t","u","r","n">>,
    <<"f","u","n","c","t","i","o","n">>, <<"c","l","a","s","s">>, <<"d","e","f">> }

\* extractDocFunctions over the matches of its pattern name(params), in document
\* order: each match is [name, params, file]
extractDocFunctions(matches) ==
    LET kept == SelectSeq(matches, LAMBDA m : m.name \notin ignoredDocNames)
    IN  [i \in 1..Len(kept) |->
            [name |-> kept[i].name,
             params |-> kept[i].params,
             signature |-> kept[i].name \o <<"(">> \o kept[i].params \o <<")">>,
             file |-> kept[i].file]]

\* docByName.get(name): the variants of that name, in document order
docVariantsOf(docFns, name) ==
    LET same == SelectSeq(docFns, LAMBDA d : d.name = name)
    IN  [i \in 1..Len(same) |->
            [params |-> normalizeParamList(same[i].params),
             file |-> same[i].file,
             signature |-> same[i].signature]]

\* classifyParams with the two tests exchanged
classifyParamsSwapped(missing, extra) ==
    IF Len(extra) > 0 /\ Len(missing) = 0 THEN "function-missing-params"
    ELSE IF Len(missing) > 0 /\ Len(extra) = 0 THEN "function-extra-params"
    ELSE "function-signature-mismatch"

\* Lines 1290-1320: the finding type for the parameters only the code has
\* (missing) and the parameters only the chosen doc variant has (extra)
classifyParams(missing, extra) ==
    IF Len(missing) > 0 /\ Len(extra) = 0 THEN "function-missing-params"
    ELSE IF Len(extra) > 0 /\ Len(missing) = 0 THEN "function-extra-params"
    ELSE "function-signature-mismatch"

\* hasExactVariant looking at the first variant only
hasExactVariantFirstOnly(docVariants, codeKey) ==
    paramKey(docVariants[1].params) = codeKey

\* Line 1282: docVariants.some((variant) => paramKey(variant.params) === codeKey)
hasExactVariant(docVariants, codeKey) ==
    \E i \in 1..Len(docVariants) : paramKey(docVariants[i].params) = codeKey

\* A finding; subject and detail are what its explanation names. Two fields
\* more record where it came from: seenKey, the code function (name:paramKey)
\* the loop was at when it pushed the finding (<<>> for a finding about a doc
\* entry), and chosen, the signature of the doc variant it was classified
\* against (<<>> when there is none).
Finding(type, severity, file, subject, detail, seenKey, chosen) ==
    [source |-> "docs-drift", type |-> type, severity |-> severity,
     deterministic |-> TRUE, file |-> file, subject |-> subject, detail |-> detail,
     seenKey |-> seenKey, chosen |-> chosen]

\* Lines 1286-1320: the finding for a function classified against the doc
\* variant `best`
classifiedFinding(fn, severity, seenKey, best, missing, extra, type) ==
    Finding(type, severity, fn.file,
            IF type = "function-signature-mismatch" THEN fn.signature ELSE fn.name,
            IF type = "function-missing-params" THEN missing
            ELSE IF type = "function-extra-params" THEN extra
            ELSE <<best.signature>>,
            seenKey, best.signature)

\* Lines 1286-1288: missing and extra against the chosen variant
bestFinding(fn, severity, seenKey, codeParams, best) ==
    classifiedFinding(fn, severity, seenKey, best,
                      difference(codeParams, best.params),
                      difference(best.params, codeParams),
                      classifyParams(difference(codeParams, best.params),
                                     difference(best.params, codeParams)))

\* Lines 1266-1320: the findings for a code function given its doc variants
variantFindings(fn, severity, seenKey, codeParams, docVariants) ==
    IF Len(docVariants) = 0
    THEN <<Finding("function-missing-doc", severity, fn.file, fn.signature, <<>>, seenKey,
                   <<>>)>>
    ELSE IF hasExactVariant(docVariants, paramKey(codeParams))
    THEN <<>>
    ELSE <<bestFinding(fn, severity, seenKey, codeParams,
                       docVariants[chooseBestParamMatch(codeParams, docVariants)])>>

\* Lines 1260-1262 for the normalised parameters of the function
paramFindings(fn, docFns, severity, codeParams) ==
    variantFindings(fn, severity, fn.name \o <<":">> \o paramKey(codeParams), codeParams,
                    docVariantsOf(docFns, fn.name))

\* The body of the loop over codeFunctions for one function that was not seen:
\* the findings it pushes
functionFindings(fn, docFns, severity) ==
    paramFindings(fn, docFns, severity,
                  normalizeParamList(extractSignatureParams(fn.signature)))

fnSeenKey(fn) ==
    fn.name \o <<":">> \o paramKey(normalizeParamList(extractSignatureParams(fn.signature)))

RECURSIVE codeLoop(_, _, _, _, _, _)
codeLoop(codeFunctions, docFns, severity, i, seen, results) ==
    IF i > Len(codeFunctions) THEN results
    ELSE IF fnSeenKey(codeFunctions[i]) \in seen
    THEN codeLoop(codeFunctions, docFns, severity, i + 1, seen, results)
    ELSE codeLoop(codeFunctions, docFns, severity, i + 1,
                  seen \cup {fnSeenKey(codeFunctions[i])},
                  results \o functionFindings(codeFunctions[i], docFns, severity))

\* The fullScan loop over docFunctions (lines 1323-1343)
RECURSIVE docLoop(_, _, _, _, _, _)
docLoop(docFns, codeNames, severity, i, docSeen, results) ==
    IF i > Len(docFns) THEN results
    ELSE IF docFns[i].name \in codeNames \/ docFns[i].name \in docSeen
    THEN docLoop(docFns, codeNames, severity, i + 1, docSeen, results)
    ELSE docLoop(docFns, codeNames, severity, i + 1, docSeen \cup {docFns[i].name},
                 Append(results,
                        Finding("docs-mentions-missing-function", severity, docFns[i].file,
                                docFns[i].signature, <<>>, <<>>, <<>>)))

\* compareFunctions(entities, docEntries, config, fullScan): [threw, results].
\* matches are what extractDocFunctions' pattern finds in docEntries; severity is
\* config.output.severity.docsDrift.
compareFunctions(ents, matches, severity, full) ==
    LET codeFunctions == SelectSeq(ents, LAMBDA e : e.type = "function")
        docFns == extractDocFunctions(matches)
        sev == normalizeSeverity(severity, sWarning)
        codeNames == {codeFunctions[i].name : i \in 1..Len(codeFunctions)}
        throws ==
            \/ \E i \in 1..Len(docFns) : paramListThrows(docFns[i].params)
            \/ \E i \in 1..Len(codeFunctions) :
                  paramListThrows(extractSignatureParams(codeFunctions[i].signature))
        matched == codeLoop(codeFunctions, docFns, sev, 1, {}, <<>>)
    IN  IF Len(codeFunctions) = 0 THEN [threw |-> FALSE, results |-> <<>>]
        ELSE IF throws THEN [threw |-> TRUE, results |-> <<>>]
        ELSE [threw |-> FALSE,
              results |-> IF full THEN docLoop(docFns, codeNames, sev, 1, {}, matched)
                          ELSE matched]

(***************************************************************************)
(* compareValues, normalizeValue, parseNumber (logicDrift.js)              *)
(***************************************************************************)
DigitSeq == <<"0","1","2","3","4","5","6","7","8","9">>
digitValue(c) == (CHOOSE i \in 1..Len(DigitSeq) : DigitSeq[i] = c) - 1

RECURSIVE digitsValue(_, _)
digitsValue(s, acc) ==
    IF s = <<>> THEN acc ELSE digitsValue(Tail(s), acc * 10 + digitValue(Head(s)))

NaN == [finite |-> FALSE, n |-> 0]
Num(n) == [finite |-> TRUE, n |-> n]

\* Number(text) for the texts of this model: the empty string is 0, an
\* optionally signed run of decimal digits is its value, anything else is NaN
\* (the texts here have no ".", no exponent and no 0x/0o/0b prefix)
toNumber(text) ==
    LET t == trim(text)
        signed == t # <<>> /\ Head(t) \in {"+", "-"}
        body == IF signed THEN Tail(t) ELSE t
    IN  IF t = <<>> THEN Num(0)
        ELSE IF body # <<>> /\ \A i \in 1..Len(body) : body[i] \in Digits
        THEN Num(IF signed /\ Head(t) = "-" THEN 0 - digitsValue(body, 0)
                 ELSE digitsValue(body, 0))
        ELSE NaN

parseNumber(value) == toNumber(removeChars(value, {",", " ", "_"}))

\* normalizeValue without the branch for the value type "string"
normalizeValueNoStringType(value, valueType) ==
    IF parseNumber(value).finite
    THEN [numeric |-> parseNumber(value), text |-> trim(value)]
    ELSE [numeric |-> NaN, text |-> trim(value)]

normalizeValue(value, valueType) ==
    IF valueType = "string" THEN [numeric |-> NaN, text |-> trim(value)]
    ELSE IF valueType \in {"number", "int", "float"}
    THEN [numeric |-> parseNumber(value), text |-> trim(value)]
    ELSE IF parseNumber(value).finite
    THEN [numeric |-> parseNumber(value), text |-> trim(value)]
    ELSE [numeric |-> NaN, text |-> trim(value)]

\* a.includes(b)
includes(a, b) ==
    \E i \in 1..(Len(a) - Len(b) + 1) : SubSeq(a, i, i + Len(b) - 1) = b

\* The switch of compareValues when both values are finite numbers
numericCompare(codeNum, policyNum, compare) ==
    CASE compare \in {"eq", "equals"} -> codeNum = policyNum
      [] compare \in {"not_equals", "ne"} -> codeNum # policyNum
      [] compare = "gt" -> codeNum > policyNum
      [] compare \in {"gte", "ge"} -> codeNum >= policyNum
      [] compare = "lt" -> codeNum < policyNum
      [] compare \in {"lte", "le"} -> codeNum <= policyNum
      [] OTHER -> codeNum = policyNum

\* The switch of compareValues on the lower-cased texts
textCompare(left, right, compare) ==
    CASE compare \in {"not_equals", "ne"} -> left # right
      [] compare = "contains" -> includes(left, right) \/ includes(right, left)
      [] OTHER -> left = right

compareValues(codeValue, policyValue, compare, valueType) ==
    LET code == normalizeValue(codeValue, valueType)
        policy == normalizeValue(policyValue, valueType)
    IN  IF code.numeric.finite /\ policy.numeric.finite
        THEN numericCompare(code.numeric.n, policy.numeric.n, compare)
        ELSE textCompare(toLowerCase(code.text), toLowerCase(policy.text), compare)

(***************************************************************************)
(* Inputs                                                                  *)
(***************************************************************************)
MaxFns == 2     \* code entities handed to compareFunctions
MaxDocs == 2    \* call-shaped tokens in the docs

BoundedSeqs(S, lo, hi) == UNION {[1..n -> S] : n \in lo..hi}

nameF == <<"f">>
nameG == <<"g">>
codeFile == "src/users.js"
docFile == "docs/api.md"

\* Raw parameter texts of code functions: none, "a", "a,b = 1", "b, a"
CodeParamTexts == { <<>>, <<"a">>, <<"a", ",", "b", " ", "=", " ", "1">>,
                    <<"b", ",", " ", "a">> }

\* Code entities: overloads of f, one g, and a class (which is not a function)
CodeEntities ==
    {buildEntity("function", nameF, p, codeFile) : p \in CodeParamTexts}
      \cup {buildEntity("function", nameG, <<"a">>, codeFile),
            buildEntity("class", nameF, <<>>, codeFile)}

\* Parameter texts of call-shaped doc tokens: "", "a", "b", "a, b", and ":id",
\* on which normalizeParamName throws
DocParamTexts == { <<>>, <<"a">>, <<"b">>, <<"a", ",", " ", "b">>, <<":", "i", "d">> }

\* Call-shaped tokens of the docs: f(...) and if(a)
DocMatches ==
    {[name |-> nameF, params |-> p, file |-> docFile] : p \in DocParamTexts}
      \cup {[name |-> <<"i", "f">>, params |-> <<"a">>, file |-> docFile]}

\* config.output.severity.docsDrift: a severity in capitals, and an unknown one
DocsSeverities == { <<"E","R","R","O","R">>, <<"l","o","u","d">> }

CompareOps == {"eq", "equals", "not_equals", "ne", "gt", "gte", "ge", "lt", "lte", "le",
               "contains", "matches"}
ValueTypes == {"auto", "string", "number", "int", "float"}

\* Extracted values: "7", "30", "07", "300", "1,000", "1000", "abc", "AB", " b", ""
Values == { <<"7">>, <<"3","0">>, <<"0","7">>, <<"3","0","0">>,
            <<"1",",","0","0","0">>, <<"1","0","0","0">>,
            <<"a","b","c">>, <<"A","B">>, <<" ","b">>, <<>> }

(***************************************************************************)
(* compareFunctions applied to every input                                 *)
(***************************************************************************)
NoRule == [matched |-> FALSE, policyExists |-> FALSE, policyChanged |-> FALSE,
           comparisons |-> 0]
NoPattern == [kind |-> "absent", probeMs |-> 0, probeEnd |-> 0, global |-> TRUE,
              sticky |-> FALSE]
NoComparison == [codePattern |-> NoPattern, policyPattern |-> NoPattern]
NoValues == [code |-> <<>>, codeMatches |-> <<>>, policyMatches |-> <<>>]
NoRegex == [built |-> FALSE, null |-> TRUE, validated |-> FALSE, executed |-> FALSE,
            lastIndex |-> 0, global |-> FALSE, sticky |-> FALSE, probeMs |-> 0,
            probeEnd |-> 0]
NoLast == [idx |-> 0, label |-> <<>>, compare |-> "equals", valueType |-> "auto",
           severityText |-> <<>>, codeValues |-> <<>>, policyValues |-> <<>>, pushed |-> <<>>]

InitLdAt(pc) ==
    /\ ldPc = pc
    /\ ldRule = NoRule
    /\ ldRuleIdx = 0
    /\ ldCmp = NoComparison
    /\ ldCmpIdx = 0
    /\ ldRegex = [code |-> NoRegex, policy |-> NoRegex]
    /\ ldValues = NoValues
    /\ ldSeen = {}
    /\ ldCmpResults = <<>>
    /\ ldResults = <<>>
    /\ ldScanned = [diff |-> FALSE, policy |-> FALSE]
    /\ ldLast = NoLast

InitLdIdle == InitLdAt("idle") /\ ldConfig = [useLLM |-> FALSE, severity |-> sError]

NoHunk == [removed |-> <<>>, added |-> <<>>, declared |-> FALSE]

InitPkAt(pc) ==
    /\ pkPc = pc
    /\ pkMatchers = <<>>
    /\ pkFileIdx = 0
    /\ pkHunkIdx = 0
    /\ pkHunk = NoHunk
    /\ pkRenames = <<>>
    /\ pkResults = <<>>

InitPkIdle ==
    InitPkAt("idle") /\ pkConfig = [allowlist |-> <<>>, docKeys |-> {}, severity |-> sWarning]

NoScan == [resolved |-> FALSE, fullScan |-> FALSE, codeFilesToScan |-> {}]

InitDrIdle ==
    /\ drPc = "idle"
    /\ drRule = [hasDocPatterns |-> FALSE, fullScan |-> "auto", fullScanMaxFiles |-> 0,
                 extractFunctions |-> FALSE, maxEntities |-> 0]
    /\ drRepo = [codeFiles |-> {}, changedFiles |-> {}, changedDocs |-> FALSE]
    /\ drScan = NoScan
    /\ drEntities = <<>>

InitEpIdle ==
    /\ epIn = [entities |-> <<>>, docs |-> <<>>, severity |-> <<>>, fullScan |-> FALSE]
    /\ epPc = "idle"
    /\ epOut = <<>>

InitNpIdle ==
    /\ npIn = <<>>
    /\ npPc = "idle"
    /\ npOut = [once |-> <<>>, twice |-> <<>>]

InitExIdle ==
    /\ exPc = "idle"
    /\ exIn = [content |-> [isString |-> FALSE, length |-> 0, hasNull |-> FALSE, lines |-> <<>>],
               extractList |-> {}]
    /\ exStep = 0
    /\ exThrows = 0
    /\ exResults = <<>>
    /\ exLog = <<>>

NoRun == [changedFiles |-> {}, repoFiles |-> {}]

\* The cache keys: generateKey hashes `${namespace}:${path.normalize(filePath)}`
CaNamespaces == {"default"}
CaKeys == CaNamespaces \X {"a.js"}
NoFile == <<>>
NoData == 0
NoEntry == [hash |-> <<>>, data |-> NoData]
NoOut == [op |-> "none", key |-> <<"default", "a.js">>, data |-> NoData]
NoRegExp == [quant |-> "one", global |-> FALSE, sticky |-> FALSE, lastIndex |-> 0]

InitCaIdle ==
    /\ caEnabled = FALSE
    /\ caFile = NoFile
    /\ caMem = [k \in CaKeys |-> NoData]
    /\ caDisk = [k \in CaKeys |-> NoEntry]
    /\ caOut = NoOut
    /\ caStored = [k \in CaKeys |-> <<>>]

InitXmIdle ==
    /\ xmPc = "idle"
    /\ xmIn = [pattern |-> NoPattern, text |-> <<>>]
    /\ xmRegex = NoRegExp
    /\ xmValues = <<>>

InitLastIdle == InitCaIdle /\ InitXmIdle

InitLateIdle == InitExIdle /\ ldRun = NoRun /\ InitLastIdle

InitMoreIdle == InitDrIdle /\ InitEpIdle /\ InitNpIdle /\ InitLateIdle

InitCv ==
    /\ cvIn = [code |-> <<>>, policy |-> <<>>, compare |-> "equals", valueType |-> "auto"]
    /\ cvPc = "idle"
    /\ cvOut = FALSE

InitFnSet ==
    /\ entities \in BoundedSeqs(CodeEntities, 1, MaxFns)
    /\ docMatches \in BoundedSeqs(DocMatches, 0, MaxDocs)
    /\ fnArgs = [severity |-> <<>>, fullScan |-> FALSE]
    /\ fnPc = "ready"
    /\ fnResults = <<>>

InitFn == InitFnSet /\ InitCv /\ InitLdIdle /\ InitPkIdle /\ InitMoreIdle

CompareFunctions ==
    /\ fnPc = "ready"
    /\ \E severity \in DocsSeverities, full \in BOOLEAN :
          LET out == compareFunctions(entities, docMatches, severity, full)
          IN  /\ fnPc' = IF out.threw THEN "threw" ELSE "returned"
              /\ fnResults' = out.results
              /\ fnArgs' = [severity |-> severity, fullScan |-> full]
    /\ UNCHANGED <<entities, docMatches, cvVars, ldVars, pkVars, moreVars>>

NextFn == CompareFunctions

SpecFn == InitFn /\ [][NextFn]_vars

(***************************************************************************)
(* Properties of compareFunctions                                          *)
(***************************************************************************)
FnTypes == {"function-missing-doc", "function-missing-params", "function-extra-params",
            "function-signature-mismatch"}

Range(s) == {s[i] : i \in 1..Len(s)}

\* The code functions of the input, and for one of them its normalised
\* parameter names and the normalised parameter lists of the documented
\* variants of the same name, in document order
CodeFns == SelectSeq(entities, LAMBDA e : e.type = "function")
CodeParamsOf(fn) == normalizeParamList(extractSignatureParams(fn.signature))
DocListsOf(fn) ==
    LET same == SelectSeq(docMatches,
                          LAMBDA m : m.name = fn.name /\ m.name \notin ignoredDocNames)
    IN  [i \in 1..Len(same) |-> normalizeParamList(same[i].params)]
DocSignaturesOf(fn) ==
    LET same == SelectSeq(docMatches,
                          LAMBDA m : m.name = fn.name /\ m.name \notin ignoredDocNames)
    IN  [i \in 1..Len(same) |-> same[i].name \o <<"(">> \o same[i].params \o <<")">>]

\* The findings pushed while the loop was at this code function
FindingsFor(fn) == SelectSeq(fnResults, LAMBDA r : r.seenKey = fnSeenKey(fn))

HasVariantsButNoExact(fn) ==
    /\ Len(DocListsOf(fn)) > 0
    /\ \A i \in 1..Len(DocListsOf(fn)) : DocListsOf(fn)[i] # CodeParamsOf(fn)

\* The variant a classification finding was made against, by its signature
ChosenList(fn, finding) ==
    DocListsOf(fn)[CHOOSE k \in 1..Len(DocListsOf(fn)) :
                      DocSignaturesOf(fn)[k] = finding.chosen]

\* C1: a code function with same-named doc entries but no doc entry with the
\* same normalised parameter list gets exactly one finding; against the chosen
\* doc variant it is function-missing-params when only the code has parameters
\* the variant lacks, function-extra-params when only the variant has parameters
\* the code lacks, function-signature-mismatch when each side has some.
C1_OneClassifiedFinding ==
    fnPc = "returned" =>
      \A i \in 1..Len(CodeFns) :
        LET fn == CodeFns[i]
            mine == FindingsFor(fn)
            codeOnly == Range(CodeParamsOf(fn)) \ Range(ChosenList(fn, mine[1]))
            docOnly == Range(ChosenList(fn, mine[1])) \ Range(CodeParamsOf(fn))
        IN  HasVariantsButNoExact(fn) =>
              /\ Len(mine) = 1
              /\ mine[1].chosen \in Range(DocSignaturesOf(fn))
              /\ (codeOnly # {} /\ docOnly = {}) => mine[1].type = "function-missing-params"
              /\ (docOnly # {} /\ codeOnly = {}) => mine[1].type = "function-extra-params"
              /\ (codeOnly # {} /\ docOnly # {})
                    => mine[1].type = "function-signature-mismatch"

\* C1 witness: f(a, b) is in the code, the docs have two variants of f, neither
\* with the parameters a, b, and the finding is function-missing-params
C1_Witness ==
    /\ fnPc = "returned"
    /\ \E i \in 1..Len(CodeFns) :
          /\ HasVariantsButNoExact(CodeFns[i])
          /\ Len(DocListsOf(CodeFns[i])) = 2
          /\ Len(FindingsFor(CodeFns[i])) = 1
          /\ FindingsFor(CodeFns[i])[1].type = "function-missing-params"

\* C2: the variant compareFunctions classifies against has the highest score
\* 2*|code n doc| - (|code \ doc| + |doc \ code|) of all the variants of that
\* name, and is the first in document order of those with that score.
C2_BestIsHighestScoreFirst ==
    fnPc = "returned" =>
      \A i \in 1..Len(CodeFns) :
        LET fn == CodeFns[i]
            lists == DocListsOf(fn)
            score(k) == paramScore(CodeParamsOf(fn), lists[k])
        IN  \A r \in Range(FindingsFor(fn)) :
              r.type \in FnTypes \ {"function-missing-doc"} =>
                \E k \in 1..Len(lists) :
                  /\ DocSignaturesOf(fn)[k] = r.chosen
                  /\ \A j \in 1..Len(lists) : score(j) <= score(k)
                  /\ \A j \in 1..(k - 1) : score(j) < score(k)

\* C3: a code function for which some doc entry has the same name and the same
\* normalised parameter list (as an ordered sequence) gets no function finding,
\* however many other variants of that name the docs have.
C3_ExactMatchNoFinding ==
    \A i \in 1..Len(CodeFns) :
      (\E k \in 1..Len(DocListsOf(CodeFns[i])) :
          DocListsOf(CodeFns[i])[k] = CodeParamsOf(CodeFns[i]))
        => \A r \in Range(fnResults) :
              r.seenKey = fnSeenKey(CodeFns[i]) => r.type \notin FnTypes

\* C3 witness: f(a,b = 1) is matched exactly by the second of two doc variants
\* of f, and compareFunctions returned findings for another function
C3_Witness ==
    /\ fnPc = "returned"
    /\ Len(fnResults) > 0
    /\ \E i \in 1..Len(CodeFns) :
          /\ Len(CodeParamsOf(CodeFns[i])) = 2
          /\ Len(DocListsOf(CodeFns[i])) = 2
          /\ DocListsOf(CodeFns[i])[1] # CodeParamsOf(CodeFns[i])
          /\ DocListsOf(CodeFns[i])[2] = CodeParamsOf(CodeFns[i])
          /\ FindingsFor(CodeFns[i]) = <<>>

\* The names of the documented functions, the names of the code functions, and
\* the docs-mentions-missing-function findings about a documented name
DocNames == {docMatches[i].name : i \in 1..Len(docMatches)} \ ignoredDocNames
CodeNames == {CodeFns[i].name : i \in 1..Len(CodeFns)}
MissingFunctionFindings(name) ==
    SelectSeq(fnResults, LAMBDA r : /\ r.type = "docs-mentions-missing-function"
                                    /\ startsWith(r.subject, name \o <<"(">>))

\* C15 as stated: when compareFunctions returns from a full scan, every
\* documented function name that no code function has is the subject of a
\* docs-mentions-missing-function finding; when it returns from a scan that is
\* not full, there is no such finding.
C15_FullScanReportsMissingFunctions ==
    fnPc = "returned"
        => IF fnArgs.fullScan
           THEN \A name \in DocNames \ CodeNames : Len(MissingFunctionFindings(name)) >= 1
           ELSE \A i \in 1..Len(fnResults) :
                   fnResults[i].type # "docs-mentions-missing-function"

(***************************************************************************)
(* compareValues applied to every input                                    *)
(***************************************************************************)
InitFnIdle ==
    /\ entities = <<>>
    /\ docMatches = <<>>
    /\ fnArgs = [severity |-> <<>>, fullScan |-> FALSE]
    /\ fnPc = "idle"
    /\ fnResults = <<>>

InitCvSet ==
    /\ cvIn \in [code : Values, policy : Values, compare : CompareOps, valueType : ValueTypes]
    /\ cvPc = "ready"
    /\ cvOut = FALSE

CompareValues ==
    /\ cvPc = "ready"
    /\ cvOut' = compareValues(cvIn.code, cvIn.policy, cvIn.compare, cvIn.valueType)
    /\ cvPc' = "returned"
    /\ UNCHANGED <<cvIn, fnVars, ldVars, pkVars, moreVars>>

NextCv == CompareValues

InitCvRun == InitCvSet /\ InitFnIdle /\ InitLdIdle /\ InitPkIdle /\ InitMoreIdle

SpecCv == InitCvRun /\ [][NextCv]_vars

\* The numeric reading of an operator, and the text reading of the claims:
\* equality of the trimmed values without regard to case
NumericReading(op, a, b) ==
    CASE op = "equals" -> a = b
      [] op = "gt" -> a > b
      [] op = "gte" -> a >= b
      [] op = "lt" -> a < b
      [] op = "lte" -> a <= b

FoldedText(v) == toLowerCase(trim(v))

BothParse == parseNumber(cvIn.code).finite /\ parseNumber(cvIn.policy).finite

\* C5 as stated: for equals, gt, gte, lt and lte, compareValues decides by the
\* numeric reading exactly when both values parse as numbers, and otherwise by
\* case-insensitive equality of the trimmed values.
C5_NumericIffBothParse ==
    (cvPc = "returned" /\ cvIn.compare \in {"equals", "gt", "gte", "lt", "lte"}) =>
      cvOut = IF BothParse
              THEN NumericReading(cvIn.compare, parseNumber(cvIn.code).n,
                                  parseNumber(cvIn.policy).n)
              ELSE FoldedText(cvIn.code) = FoldedText(cvIn.policy)

\* C5 amended: for equals, gt, gte, lt and lte, compareValues decides by the
\* numeric reading exactly when the value type is not "string" and both values
\* parse as finite numbers, and otherwise by case-insensitive equality of the
\* trimmed values.
C5_NumericUnlessStringType ==
    (cvPc = "returned" /\ cvIn.compare \in {"equals", "gt", "gte", "lt", "lte"}) =>
      cvOut = IF cvIn.valueType # "string" /\ BothParse
              THEN NumericReading(cvIn.compare, parseNumber(cvIn.code).n,
                                  parseNumber(cvIn.policy).n)
              ELSE FoldedText(cvIn.code) = FoldedText(cvIn.policy)

\* C5 witness: "07" against "7" under equals with value type "string" is decided
\* as text (false), although both parse as the number 7
C5_Witness ==
    /\ cvPc = "returned"
    /\ cvIn.compare = "equals"
    /\ cvIn.valueType = "string"
    /\ BothParse
    /\ parseNumber(cvIn.code).n = parseNumber(cvIn.policy).n
    /\ cvOut = FALSE

\* C6: under contains, a code value satisfies the comparison against a policy
\* value exactly when one of the two contains the other without regard to case.
C6_ContainsEitherDirection ==
    (cvPc = "returned" /\ cvIn.compare = "contains") =>
      cvOut = (\/ includes(FoldedText(cvIn.code), FoldedText(cvIn.policy))
               \/ includes(FoldedText(cvIn.policy), FoldedText(cvIn.code)))

(***************************************************************************)
(* runDeterministicComparisons and its helpers (logicDrift.js)             *)
(*                                                                         *)
(* A configured pattern is described by what the JavaScript RegExp does    *)
(* with it: kind is "absent" (no pattern configured), "nonstring" (neither *)
(* a string nor a RegExp), "invalid" (new RegExp throws) or "regex";       *)
(* probeMs is the longest time regex.test takes on a probe string and      *)
(* probeEnd the index at which its match on the last probe string ends (0  *)
(* when it does not match); global and sticky are the g and y flags. The   *)
(* successive matches of a regex on a text (group 1, or the whole match)   *)
(* are given as a sequence of strings; the text is these matches, each     *)
(* followed by one character that is not matched, so the first match       *)
(* begins at index 0.                                                      *)
(***************************************************************************)
MAX_REGEX_TIME_MS == 100

\* new RegExp(body, flags): a fresh RegExp object, lastIndex 0
CompiledRegex(pattern) ==
    [built |-> TRUE, null |-> FALSE, validated |-> FALSE, executed |-> FALSE,
     lastIndex |-> 0, global |-> pattern.global, sticky |-> pattern.sticky,
     probeMs |-> pattern.probeMs, probeEnd |-> pattern.probeEnd]
NullRegex == [NoRegex EXCEPT !.built = TRUE]

\* regex.test(testCase) on the last probe string: a global or sticky regex is
\* left with lastIndex at the end of its match, any other keeps its lastIndex
afterProbes(regex) ==
    IF regex.global \/ regex.sticky THEN regex.probeEnd ELSE regex.lastIndex

\* validateRegexSafety without the reset that follows the probes
validateRegexSafetyNoReset(regex) ==
    IF regex.probeMs > MAX_REGEX_TIME_MS
    THEN [threw |-> TRUE, regex |-> regex]
    ELSE [threw |-> FALSE,
          regex |-> [regex EXCEPT !.validated = TRUE, !.lastIndex = afterProbes(regex)]]

\* validateRegexSafety(regex): throws when a probe took longer than the budget,
\* and otherwise returns the regex, lastIndex reset when it is global or sticky
validateRegexSafety(regex) ==
    IF regex.probeMs > MAX_REGEX_TIME_MS
    THEN [threw |-> TRUE, regex |-> regex]
    ELSE [threw |-> FALSE,
          regex |-> [regex EXCEPT !.validated = TRUE,
                                  !.lastIndex = IF regex.global \/ regex.sticky
                                                THEN 0 ELSE afterProbes(regex)]]

\* buildRegex(pattern, flags): [threw, regex]
buildRegex(pattern) ==
    IF pattern.kind = "nonstring" THEN [threw |-> FALSE, regex |-> NullRegex]
    ELSE IF pattern.kind = "invalid" THEN [threw |-> TRUE, regex |-> NoRegex]
    ELSE validateRegexSafety(CompiledRegex(pattern))

\* The index in the text at which the k-th match begins
RECURSIVE matchStart(_, _)
matchStart(matches, k) ==
    IF k = 1 THEN 0 ELSE matchStart(matches, k - 1) + Len(matches[k - 1]) + 1

\* The matches regex.exec finds in turn, starting at regex.lastIndex: a sticky
\* regex matches only at lastIndex itself, a global one from lastIndex on, and
\* any other ignores lastIndex and finds the first match
execMatches(matches, regex) ==
    LET from == { k \in 1..Len(matches) : matchStart(matches, k) >= regex.lastIndex }
        at == { k \in 1..Len(matches) : matchStart(matches, k) = regex.lastIndex }
    IN  IF regex.sticky
        THEN IF at = {} THEN <<>> ELSE LET k == CHOOSE i \in at : TRUE IN SubSeq(matches, k, k)
        ELSE IF regex.global
        THEN SubSeq(matches, Len(matches) - Cardinality(from) + 1, Len(matches))
        ELSE SubSeq(matches, 1, IF Len(matches) > 0 THEN 1 ELSE 0)

\* extractMatches(text, regex): the trimmed matches, all of them from lastIndex
\* on for a global regex and the first one otherwise
extractMatches(matches, regex) ==
    IF regex.null THEN <<>> ELSE trimEach(execMatches(matches, regex))

\* regex.lastIndex when extractMatches returns: 0 after the failed exec that
\* ends a global loop or a sticky miss, the end of the match for a sticky
\* regex without the g flag, unchanged for a regex with neither flag
lastIndexAfter(matches, regex) ==
    IF regex.null \/ ~(regex.global \/ regex.sticky) THEN regex.lastIndex
    ELSE IF regex.global \/ execMatches(matches, regex) = <<>> THEN 0
    ELSE regex.lastIndex + Len(execMatches(matches, regex)[1])

\* (comparison.compare || 'equals').toLowerCase() as the operator compareValues
\* switches on
compareOf(text) ==
    LET t == IF text = <<>> THEN <<"e","q","u","a","l","s">> ELSE toLowerCase(text)
    IN  CASE t = <<"e","q">> -> "eq"
          [] t = <<"e","q","u","a","l","s">> -> "equals"
          [] t = <<"n","o","t","_","e","q","u","a","l","s">> -> "not_equals"
          [] t = <<"n","e">> -> "ne"
          [] t = <<"g","t">> -> "gt"
          [] t = <<"g","t","e">> -> "gte"
          [] t = <<"g","e">> -> "ge"
          [] t = <<"l","t">> -> "lt"
          [] t = <<"l","t","e">> -> "lte"
          [] t = <<"l","e">> -> "le"
          [] t = <<"c","o","n","t","a","i","n","s">> -> "contains"
          [] OTHER -> "matches"

\* (comparison.value_type || comparison.valueType || 'auto').toLowerCase()
valueTypeOf(text) ==
    LET t == IF text = <<>> THEN <<"a","u","t","o">> ELSE toLowerCase(text)
    IN  CASE t = <<"s","t","r","i","n","g">> -> "string"
          [] t = <<"n","u","m","b","e","r">> -> "number"
          [] t = <<"i","n","t">> -> "int"
          [] t = <<"f","l","o","a","t">> -> "float"
          [] OTHER -> "auto"

ruleName == <<"B","i","l","l","i","n","g">>
ruleFile == "src/billing/refund.js"
noFile == ""

\* A finding of the logic-drift detector. label, code and policy are what the
\* explanation names; cmp records which comparison of the rule pushed it (0 for
\* a finding of the rule itself).
LdFinding(source, type, severity, deterministic, file, label, code, policy, cmp) ==
    [source |-> source, type |-> type, severity |-> severity,
     deterministic |-> deterministic, rule |-> ruleName, file |-> file,
     label |-> label, code |-> code, policy |-> policy, cmp |-> cmp]

missingKey(label, codeValues) ==
    label \o <<":","m","i","s","s","i","n","g",":">> \o join(codeValues, <<",">>)

mismatchKey(label, codeValue, policyValues) ==
    label \o <<":","m","i","s","m","a","t","c","h",":">> \o codeValue \o <<":">>
          \o join(policyValues, <<",">>)

\* satisfied asking every policy value instead of some
satisfiedByEvery(codeValue, policyValues, compare, valueType) ==
    \A k \in 1..Len(policyValues) : compareValues(codeValue, policyValues[k], compare, valueType)

\* policyValues.some((policyValue) => compareValues(codeValue, policyValue, ...))
satisfied(codeValue, policyValues, compare, valueType) ==
    \E k \in 1..Len(policyValues) : compareValues(codeValue, policyValues[k], compare, valueType)

\* The loop over codeValues (lines 3409-3429): [seen, results]
RECURSIVE mismatchLoop(_, _, _, _, _, _, _, _, _, _)
mismatchLoop(codeValues, i, policyValues, compare, valueType, label, severity, cmp, seen, results) ==
    IF i > Len(codeValues) THEN [seen |-> seen, results |-> results]
    ELSE IF \/ satisfied(codeValues[i], policyValues, compare, valueType)
            \/ mismatchKey(label, codeValues[i], policyValues) \in seen
    THEN mismatchLoop(codeValues, i + 1, policyValues, compare, valueType, label, severity,
                      cmp, seen, results)
    ELSE mismatchLoop(codeValues, i + 1, policyValues, compare, valueType, label, severity,
                      cmp, seen \cup {mismatchKey(label, codeValues[i], policyValues)},
                      Append(results,
                             LdFinding("logic-drift", "policy-value-mismatch", severity, TRUE,
                                       ruleFile, label, codeValues[i], join(policyValues, <<",", " ">>),
                                       cmp)))

\* evaluateComparison without the branch for an empty policyValues
evaluateComparisonNoMissing(codeValues, policyValues, compare, valueType, label, severity, cmp, seen, results) ==
    mismatchLoop(codeValues, 1, policyValues, compare, valueType, label, severity, cmp, seen,
                 results)

\* Lines 3384-3429 for one comparison with code values: [seen, results]
evaluateComparison(codeValues, policyValues, compare, valueType, label, severity, cmp, seen, results) ==
    IF Len(policyValues) = 0
    THEN IF missingKey(label, codeValues) \in seen
         THEN [seen |-> seen, results |-> results]
         ELSE [seen |-> seen \cup {missingKey(label, codeValues)},
               results |-> Append(results,
                                  LdFinding("logic-drift", "policy-value-missing", severity,
                                            TRUE, ruleFile, label, join(codeValues, <<",", " ">>), <<>>,
                                            cmp))]
    ELSE mismatchLoop(codeValues, 1, policyValues, compare, valueType, label, severity, cmp,
                      seen, results)

(***************************************************************************)
(* detectLogicDrift as a state machine                                     *)
(*                                                                         *)
(* The configuration and the texts are read where the code reads them:     *)
(* each step draws what it reads from the set it is given.                 *)
(***************************************************************************)
MaxRules == 2
MaxCmps == 2

ldLocals == <<ldCmp, ldCmpIdx, ldRegex, ldValues, ldSeen, ldCmpResults, ldLast>>

\* Lines 3236-3279: the next rule of config.logicDrift.rules
RuleNext(Rules) ==
    /\ ldPc = "rule"
    /\ ldRuleIdx < MaxRules
    /\ \E rule \in Rules :
         /\ ldRule' = rule
         /\ ldRuleIdx' = ldRuleIdx + 1
         /\ IF ~rule.matched
            THEN ldPc' = "rule" /\ UNCHANGED ldResults
            ELSE IF ~rule.policyExists
            THEN /\ ldPc' = "rule"
                 /\ ldResults' = Append(ldResults,
                        LdFinding("logic-drift", "policy-missing", sWarning, TRUE, noFile,
                                  <<>>, <<>>, <<>>, 0))
            ELSE /\ ldPc' = "diff"
                 /\ ldResults' =
                        IF rule.policyChanged THEN ldResults
                        ELSE Append(ldResults,
                               LdFinding("logic-drift", "policy-not-updated",
                                         normalizeSeverity(ldConfig.severity, sError), TRUE,
                                         ruleFile, <<>>, <<>>, <<>>, 0))
    /\ UNCHANGED <<ldConfig, ldScanned, ldLocals, fnVars, cvVars, pkVars, moreVars>>

\* Lines 3280-3284: getFileDiff for every matched file when a diff is needed
FetchDiff ==
    /\ ldPc = "diff"
    /\ ldPc' = "policy"
    /\ ldScanned' = [ldScanned EXCEPT
                       !.diff = @ \/ (ldRule.comparisons > 0 \/ ldConfig.useLLM)]
    /\ UNCHANGED <<ldConfig, ldRule, ldRuleIdx, ldResults, ldLocals, fnVars, cvVars, pkVars, moreVars>>

\* Lines 3286-3291: readFileSync of every policy file when the text is needed
ReadPolicy ==
    /\ ldPc = "policy"
    /\ ldPc' = "call"
    /\ ldScanned' = [ldScanned EXCEPT
                       !.policy = @ \/ (ldRule.comparisons > 0 \/ ldConfig.useLLM)]
    /\ UNCHANGED <<ldConfig, ldRule, ldRuleIdx, ldResults, ldLocals, fnVars, cvVars, pkVars, moreVars>>

\* Lines 3293-3294 and 3360-3368: runDeterministicComparisons is entered when
\* the rule has comparisons
CallComparisons ==
    /\ ldPc = "call"
    /\ ldPc' = IF ldRule.comparisons > 0 THEN "cmp" ELSE "llm"
    /\ ldCmpIdx' = 0
    /\ ldSeen' = {}
    /\ ldCmpResults' = <<>>
    /\ ldLast' = NoLast
    /\ UNCHANGED <<ldConfig, ldRule, ldRuleIdx, ldResults, ldScanned, ldCmp, ldRegex, ldValues,
                   fnVars, cvVars, pkVars, moreVars>>

\* Lines 3370-3375: the next comparison, skipped when a pattern is missing
CmpNext(CodePatterns, PolicyPatterns) ==
    /\ ldPc = "cmp"
    /\ ldCmpIdx < ldRule.comparisons
    /\ ldCmpIdx' = ldCmpIdx + 1
    /\ \E codePattern \in CodePatterns, policyPattern \in PolicyPatterns :
         IF codePattern.kind = "absent" \/ policyPattern.kind = "absent"
         THEN ldPc' = "cmp" /\ ldCmp' = NoComparison
         ELSE /\ ldPc' = "buildCode"
              /\ ldCmp' = [codePattern |-> codePattern, policyPattern |-> policyPattern]
    /\ UNCHANGED <<ldConfig, ldRule, ldRuleIdx, ldResults, ldScanned, ldRegex, ldValues, ldSeen,
                   ldCmpResults, ldLast, fnVars, cvVars, pkVars, moreVars>>

\* Line 3377: buildRegex(codePattern, ...); its exception leaves both functions
BuildCodeRegex ==
    /\ ldPc = "buildCode"
    /\ LET out == buildRegex(ldCmp.codePattern)
       IN  IF out.threw
           THEN ldPc' = "threw" /\ UNCHANGED ldRegex
           ELSE ldPc' = "buildPolicy" /\ ldRegex' = [ldRegex EXCEPT !.code = out.regex]
    /\ UNCHANGED <<ldConfig, ldRule, ldRuleIdx, ldResults, ldScanned, ldCmp, ldCmpIdx, ldValues,
                   ldSeen, ldCmpResults, ldLast, fnVars, cvVars, pkVars, moreVars>>

\* Line 3378: buildRegex(policyPattern, ...)
BuildPolicyRegex ==
    /\ ldPc = "buildPolicy"
    /\ LET out == buildRegex(ldCmp.policyPattern)
       IN  IF out.threw
           THEN ldPc' = "threw" /\ UNCHANGED ldRegex
           ELSE ldPc' = "extract" /\ ldRegex' = [ldRegex EXCEPT !.policy = out.regex]
    /\ UNCHANGED <<ldConfig, ldRule, ldRuleIdx, ldResults, ldScanned, ldCmp, ldCmpIdx, ldValues,
                   ldSeen, ldCmpResults, ldLast, fnVars, cvVars, pkVars, moreVars>>

\* Lines 3379-3382: the code values; none ends the iteration. codeMatches and
\* policyMatches are what the two patterns match in diffText and policyText.
ExtractCode(CodeMatches, PolicyMatches) ==
    /\ ldPc = "extract"
    /\ \E codeMatches \in CodeMatches, policyMatches \in PolicyMatches :
         LET codeValues == extractMatches(codeMatches, ldRegex.code)
         IN  IF Len(codeValues) = 0
             THEN /\ ldPc' = "cmp"
                  /\ ldLast' = [NoLast EXCEPT
                        !.idx = ldCmpIdx,
                        !.policyValues = extractMatches(policyMatches, ldRegex.policy)]
                  /\ ldCmp' = NoComparison
                  /\ ldRegex' = [code |-> NoRegex, policy |-> NoRegex]
                  /\ ldValues' = NoValues
             ELSE /\ ldPc' = "evaluate"
                  /\ ldValues' = [code |-> codeValues, codeMatches |-> codeMatches,
                                  policyMatches |-> policyMatches]
                  /\ ldRegex' = [ldRegex EXCEPT
                        !.code.executed = TRUE,
                        !.code.lastIndex = lastIndexAfter(codeMatches, ldRegex.code)]
                  /\ UNCHANGED <<ldCmp, ldLast>>
    /\ UNCHANGED <<ldConfig, ldRule, ldRuleIdx, ldResults, ldScanned, ldCmpIdx, ldSeen,
                   ldCmpResults, fnVars, cvVars, pkVars, moreVars>>

\* Lines 3384-3429: the policy values, the options of the comparison, and the
\* findings of the comparison
Evaluate(Compares, Types, SeverityTexts, Names) ==
    /\ ldPc = "evaluate"
    /\ \E compareText \in Compares, typeText \in Types, severityText \in SeverityTexts,
          name \in Names :
         LET policyValues == extractMatches(ldValues.policyMatches, ldRegex.policy)
             compare == compareOf(compareText)
             valueType == valueTypeOf(typeText)
             severity == normalizeSeverity(severityText, ldConfig.severity)
             label == IF name # <<>> THEN name ELSE ruleName
             out == evaluateComparison(ldValues.code, policyValues, compare, valueType, label,
                                       severity, ldCmpIdx, ldSeen, ldCmpResults)
         IN  /\ ldSeen' = out.seen
             /\ ldCmpResults' = out.results
             /\ ldLast' = [idx |-> ldCmpIdx, label |-> label, compare |-> compare,
                           valueType |-> valueType, severityText |-> severityText,
                           codeValues |-> ldValues.code,
                           policyValues |-> policyValues,
                           pushed |-> SubSeq(out.results, Len(ldCmpResults) + 1,
                                             Len(out.results))]
    /\ ldPc' = "cmp"
    /\ ldCmp' = NoComparison
    /\ ldRegex' = [code |-> NoRegex, policy |-> NoRegex]
    /\ ldValues' = NoValues
    /\ UNCHANGED <<ldConfig, ldRule, ldRuleIdx, ldResults, ldScanned, ldCmpIdx, fnVars, cvVars, pkVars, moreVars>>

\* Lines 3432 and 3294: runDeterministicComparisons returns and its results are
\* pushed onto those of detectLogicDrift
CmpReturn ==
    /\ ldPc = "cmp"
    /\ ldCmpIdx = ldRule.comparisons
    /\ ldPc' = "llm"
    /\ ldResults' = ldResults \o ldCmpResults
    /\ ldSeen' = {}
    /\ ldCmpResults' = <<>>
    /\ ldLast' = NoLast
    /\ UNCHANGED <<ldConfig, ldRule, ldRuleIdx, ldScanned, ldCmp, ldCmpIdx, ldRegex, ldValues,
                   fnVars, cvVars, pkVars, moreVars>>

\* Lines 3304-3344: the optional LLM analysis of the rule
LlmAnalysis(Responses) ==
    /\ ldPc = "llm"
    /\ ldPc' = "rule"
    /\ IF ~ldConfig.useLLM THEN UNCHANGED ldResults
       ELSE \E data \in Responses :
              ldResults' =
                 IF ~data.parsed
                 THEN Append(ldResults,
                             LdFinding("logic-drift-llm", "llm-parse-error", sWarning, FALSE,
                                       noFile, <<>>, <<>>, <<>>, 0))
                 ELSE IF ~data.contradicts THEN ldResults
                 ELSE Append(ldResults,
                             LdFinding("logic-drift-llm", "policy-contradiction",
                                       normalizeSeverity(data.severity, ldConfig.severity),
                                       FALSE, ruleFile, <<>>, <<>>, <<>>, 0))
    /\ UNCHANGED <<ldConfig, ldRule, ldRuleIdx, ldScanned, ldLocals, fnVars, cvVars, pkVars, moreVars>>

\* Line 3347: return results
LdReturn ==
    /\ ldPc = "rule"
    /\ ldPc' = "returned"
    /\ UNCHANGED <<ldConfig, ldRule, ldRuleIdx, ldResults, ldScanned, ldLocals, fnVars, cvVars, pkVars, moreVars>>

(***************************************************************************)
(* Inputs of detectLogicDrift                                              *)
(***************************************************************************)
\* A rule by what lines 3242-3268 find: unmatched, without policy files, or
\* with policy files, changed or not, and with 0..MaxCmps comparisons
LdRules ==
    { NoRule, [NoRule EXCEPT !.matched = TRUE] }
    \cup { [matched |-> TRUE, policyExists |-> TRUE, policyChanged |-> c, comparisons |-> n] :
             c \in BOOLEAN, n \in 0..MaxCmps }

\* Patterns: missing, not a string, not compilable, and regular expressions:
\* global ones whose slowest probe takes exactly the budget or one millisecond
\* more, and one without flags
LdPatterns ==
    LET regex == [NoPattern EXCEPT !.kind = "regex", !.probeMs = MAX_REGEX_TIME_MS]
    IN  { NoPattern, [NoPattern EXCEPT !.kind = "nonstring"],
          [NoPattern EXCEPT !.kind = "invalid"],
          regex, [regex EXCEPT !.probeMs = MAX_REGEX_TIME_MS + 1],
          [regex EXCEPT !.global = FALSE] }

\* code_pattern values: the patterns above, the regular expressions within
\* budget replaced by a global and a sticky one that match the first character
\* of the probe strings, so that test() leaves lastIndex at 1
LdCodePatterns ==
    LET regex == [NoPattern EXCEPT !.kind = "regex", !.probeMs = MAX_REGEX_TIME_MS]
    IN  (LdPatterns \ {regex, [regex EXCEPT !.global = FALSE]})
        \cup { [regex EXCEPT !.probeEnd = 1],
               [regex EXCEPT !.global = FALSE, !.sticky = TRUE, !.probeEnd = 1] }

\* config.output.severity.logicDrift after normalizeConfig: "error" by default
LdConfigs == [useLLM : BOOLEAN, severity : {sError, <<"I","n","f","o">>}]

\* safeParseJson(response): unparsable, or an object
LlmResponses ==
    { [parsed |-> FALSE, contradicts |-> FALSE, severity |-> <<>>],
      [parsed |-> TRUE, contradicts |-> FALSE, severity |-> <<>>],
      [parsed |-> TRUE, contradicts |-> TRUE, severity |-> <<>>],
      [parsed |-> TRUE, contradicts |-> TRUE, severity |-> <<"C","R","I","T","I","C","A","L">>] }

\* Matches of a code pattern in a diff: none, "7", " 30", "7" twice, "7" and "30"
CodeMatchLists ==
    { <<>>, << <<"7">> >>, << <<" ","3","0">> >>, << <<"7">>, <<"7">> >>,
      << <<"7">>, <<"3","0">> >> }

\* Matches of a policy pattern in the policy text: none, "30", "7 ", "30" and "x"
PolicyMatchLists ==
    { <<>>, << <<"3","0">> >>, << <<"7"," ">> >>, << <<"3","0">>, <<"x">> >> }

\* comparison.compare: absent, "LTE", "ne"
CompareTexts == { <<>>, <<"L","T","E">>, <<"n","e">> }
\* comparison.value_type: absent, "String"
TypeTexts == { <<>>, <<"S","t","r","i","n","g">> }
\* comparison.severity: absent, "warning"
SeverityTexts == { <<>>, sWarning }
\* comparison.name: absent, "Fee"
LabelTexts == { <<>>, <<"F","e","e">> }

(***************************************************************************)
(* runDeterministicComparisons called for a rule with comparisons          *)
(***************************************************************************)
\* The state at line 3293 of the first rule, one with comparisons
InitRc ==
    /\ InitFnIdle
    /\ InitCv
    /\ InitPkIdle
    /\ InitMoreIdle
    /\ ldPc = "call"
    /\ ldConfig \in [useLLM : {FALSE}, severity : {sError}]
    /\ ldRule \in { r \in LdRules : r.comparisons > 0 /\ r.policyChanged }
    /\ ldRuleIdx = 1
    /\ ldCmp = NoComparison
    /\ ldCmpIdx = 0
    /\ ldRegex = [code |-> NoRegex, policy |-> NoRegex]
    /\ ldValues = NoValues
    /\ ldSeen = {}
    /\ ldCmpResults = <<>>
    /\ ldResults = <<>>
    /\ ldScanned = [diff |-> TRUE, policy |-> TRUE]
    /\ ldLast = NoLast

NextRc ==
    \/ CallComparisons
    \/ CmpNext(LdCodePatterns, LdPatterns)
    \/ BuildCodeRegex
    \/ BuildPolicyRegex
    \/ ExtractCode(CodeMatchLists, PolicyMatchLists)
    \/ Evaluate(CompareTexts, {<<>>}, {<<>>}, LabelTexts)
    \/ CmpReturn

SpecRc == InitRc /\ [][NextRc]_vars

(***************************************************************************)
(* A run of detectLogicDrift over up to MaxRules rules                     *)
(***************************************************************************)
InitLd ==
    /\ InitFnIdle
    /\ InitCv
    /\ InitPkIdle
    /\ InitMoreIdle
    /\ InitLdAt("rule")
    /\ ldConfig \in LdConfigs

NextLd ==
    \/ RuleNext(LdRules)
    \/ FetchDiff
    \/ ReadPolicy
    \/ CallComparisons
    \/ CmpNext(LdCodePatterns, LdPatterns)
    \/ BuildCodeRegex
    \/ BuildPolicyRegex
    \/ ExtractCode({<<>>, << <<"7">> >>}, {<<>>, << <<"3","0">> >>})
    \/ Evaluate({<<>>}, TypeTexts, SeverityTexts, {<<>>})
    \/ CmpReturn
    \/ LlmAnalysis(LlmResponses)
    \/ LdReturn

SpecLd == InitLd /\ [][NextLd]_vars

(***************************************************************************)
(* Properties of runDeterministicComparisons                               *)
(***************************************************************************)
\* The comparison the loop has just finished, once its options were read
Evaluated == ldLast.idx > 0 /\ Len(ldLast.codeValues) > 0

\* codeValue satisfies the operator against at least one policy value
SatisfiesSome(codeValue) ==
    \E k \in 1..Len(ldLast.policyValues) :
        compareValues(codeValue, ldLast.policyValues[k], ldLast.compare, ldLast.valueType)

\* The policy-value-mismatch findings of the call for a code value of the
\* comparison, as positions in the results
MismatchesFor(codeValue) ==
    { k \in 1..Len(ldCmpResults) :
        /\ ldCmpResults[k].type = "policy-value-mismatch"
        /\ ldCmpResults[k].label = ldLast.label
        /\ ldCmpResults[k].code = codeValue
        /\ ldCmpResults[k].policy = join(ldLast.policyValues, <<",", " ">>) }

\* The policy-value-missing findings of the call for the code values of the
\* comparison
MissingFor ==
    { k \in 1..Len(ldCmpResults) :
        /\ ldCmpResults[k].type = "policy-value-missing"
        /\ ldCmpResults[k].label = ldLast.label
        /\ ldCmpResults[k].code = join(ldLast.codeValues, <<",", " ">>) }

\* C4: for a comparison whose policy pattern yields at least one value, a code
\* value that satisfies the operator against some policy value gets no finding
\* from the comparison, and a code value that satisfies it against none has
\* exactly one policy-value-mismatch finding (for its label, that value and
\* those policy values) in the results, however often the value was extracted.
C4_MismatchPerUnsatisfiedValue ==
    (Evaluated /\ Len(ldLast.policyValues) > 0) =>
        \A i \in 1..Len(ldLast.codeValues) :
            IF SatisfiesSome(ldLast.codeValues[i])
            THEN \A k \in 1..Len(ldLast.pushed) : ldLast.pushed[k].code # ldLast.codeValues[i]
            ELSE /\ Cardinality(MismatchesFor(ldLast.codeValues[i])) = 1
                 /\ \A k \in 1..Len(ldLast.pushed) :
                        ldLast.pushed[k].type = "policy-value-mismatch"

\* A comparison with two policy values, one code value that satisfies the
\* operator against one of them only, and another that gets the one finding
C4_Witness ==
    /\ Evaluated
    /\ Len(ldLast.policyValues) = 2
    /\ \E i, j \in 1..Len(ldLast.codeValues) :
         /\ SatisfiesSome(ldLast.codeValues[i])
         /\ ~ \A k \in 1..2 : compareValues(ldLast.codeValues[i], ldLast.policyValues[k],
                                            ldLast.compare, ldLast.valueType)
         /\ ~SatisfiesSome(ldLast.codeValues[j])
    /\ Len(ldLast.pushed) = 1

\* C7 as stated: every comparison whose policy pattern extracts no value pushes
\* a policy-value-missing finding.
C7_MissingWheneverPolicyEmpty ==
    (ldLast.idx > 0 /\ Len(ldLast.policyValues) = 0) =>
        \E k \in 1..Len(ldLast.pushed) : ldLast.pushed[k].type = "policy-value-missing"

\* C7: every comparison whose code pattern extracted at least one value and
\* whose policy pattern extracted none has exactly one policy-value-missing
\* finding for its label and code values in the results of
\* runDeterministicComparisons, and pushes no other finding.
C7_MissingWhenCodeHasValues ==
    (Evaluated /\ Len(ldLast.policyValues) = 0) =>
        /\ Cardinality(MissingFor) = 1
        /\ \A k \in 1..Len(ldLast.pushed) : ldLast.pushed[k].type = "policy-value-missing"
        /\ Len(ldLast.pushed) <= 1

\* A second comparison with code values and no policy value that pushed its finding
C7_Witness ==
    /\ Evaluated
    /\ ldLast.idx = 2
    /\ Len(ldLast.policyValues) = 0
    /\ Len(ldLast.pushed) = 1
    /\ ldLast.pushed[1].type = "policy-value-missing"
    /\ ldLast.pushed[1].cmp = 2

(***************************************************************************)
(* Properties of a run of detectLogicDrift                                 *)
(***************************************************************************)
\* C9 as stated: when a pattern is rejected, no file diff was fetched, no policy
\* file was read and no finding was produced before.
C9_RejectedBeforeScanning ==
    ldPc = "threw" =>
        /\ ~ldScanned.diff
        /\ ~ldScanned.policy
        /\ ldResults = <<>>
        /\ ldCmpResults = <<>>

\* C10 as stated: no pattern makes detectLogicDrift leave with an exception.
C10_RunCompletes == ldPc # "threw"

\* C11: once validateRegexSafety has returned a global or sticky regex, its
\* lastIndex is 0 until the regex is executed, and the extraction that follows
\* with a global regex returns every match of the text, trimmed, the match at
\* index 0 first.
C11_ExtractionStartsAtZero ==
    /\ \A side \in {"code", "policy"} :
          LET regex == ldRegex[side]
          IN  regex.validated /\ ~regex.executed /\ (regex.global \/ regex.sticky)
                  => regex.lastIndex = 0
    /\ ldPc = "evaluate" /\ ldRegex.code.global /\ ~ldRegex.code.sticky
          => /\ ldValues.code = trimEach(ldValues.codeMatches)
             /\ ldValues.code[1] = trim(ldValues.codeMatches[1])

\* A global regex that matched the probe strings, so that the probes moved
\* lastIndex, has extracted two matches of the diff
C11_Witness ==
    /\ ldPc = "evaluate"
    /\ ldRegex.code.global
    /\ ldRegex.code.probeEnd > 0
    /\ Len(ldValues.codeMatches) = 2
    /\ Len(ldValues.code) = 2

(***************************************************************************)
(* The payload-key allowlist and comparePayloadKeyRenames (docsDrift.js)   *)
(*                                                                         *)
(* A compiled matcher is the source of its regular expression, whether it  *)
(* is anchored (^...$), its g flag, and the state of the RegExp object.    *)
(* The sources the allowlist produces use escaped characters, ".", ".*"    *)
(* and plain characters only, and are matched as such. Regex-form entries  *)
(* of this model have a body of plain characters.                          *)
(***************************************************************************)
MaxFiles == 2
MaxHunks == 2

\* s.replace(/[set]/g, '\\$&'): a backslash before every character of `set`
RECURSIVE escapeChars(_, _)
escapeChars(s, set) ==
    IF s = <<>> THEN <<>>
    ELSE (IF Head(s) \in set THEN <<"\\", Head(s)>> ELSE <<Head(s)>>)
         \o escapeChars(Tail(s), set)

\* s.replace(/c/g, r) for a character c, applied to the source text
RECURSIVE replaceChar(_, _, _)
replaceChar(s, c, r) ==
    IF s = <<>> THEN <<>>
    ELSE (IF Head(s) = c THEN r ELSE <<Head(s)>>) \o replaceChar(Tail(s), c, r)

escapeRegExp(value) ==
    escapeChars(value, {"|", "\\", "{", "}", "(", ")", "[", "]", "^", "$", "+", "?", "."})

\* Whether the source matches the whole of key
RECURSIVE matchesWhole(_, _)
matchesWhole(source, key) ==
    IF source = <<>> THEN key = <<>>
    ELSE IF Head(source) = "\\" /\ Len(source) >= 2
    THEN /\ key # <<>>
         /\ Head(key) = source[2]
         /\ matchesWhole(SubSeq(source, 3, Len(source)), Tail(key))
    ELSE IF Head(source) = "." /\ Len(source) >= 2 /\ source[2] = "*"
    THEN \E n \in 0..Len(key) :
            matchesWhole(SubSeq(source, 3, Len(source)), SubSeq(key, n + 1, Len(key)))
    ELSE IF Head(source) = "."
    THEN key # <<>> /\ matchesWhole(Tail(source), Tail(key))
    ELSE key # <<>> /\ Head(key) = Head(source) /\ matchesWhole(Tail(source), Tail(key))

Matcher(form, source, anchored, global) ==
    [form |-> form, source |-> source, anchored |-> anchored, global |-> global,
     validated |-> FALSE, executed |-> FALSE, lastIndex |-> 0]

\* wildcardToRegExp(value): the escape comes first, so that "?" is "\?" when
\* the second replace looks for "?"
wildcardToRegExp(value) ==
    LET escaped == escapeChars(value, {"-", "/", "\\", "^", "$", "+", "?", ".", "(", ")", "|",
                                       "[", "]", "{", "}"})
        regex == replaceChar(replaceChar(escaped, "*", <<".", "*">>), "?", <<".">>)
    IN  Matcher("wildcard", regex, TRUE, FALSE)

\* One entry of the allowlist: the matchers it adds
compileEntry(entry) ==
    LET raw == trim(entry)
        lastSlash == lastIndexOf(raw, "/")
    IN  IF raw = <<>> THEN <<>>
        ELSE IF Head(raw) = "/" /\ lastSlash > 1
        THEN << Matcher("regex", SubSeq(raw, 2, lastSlash - 1), FALSE,
                        includesChar(SubSeq(raw, lastSlash + 1, Len(raw)), "g")) >>
        ELSE IF includesChar(raw, "*") \/ includesChar(raw, "?")
        THEN << wildcardToRegExp(raw) >>
        ELSE << Matcher("literal", escapeRegExp(raw), TRUE, FALSE) >>

RECURSIVE compileAllowlist(_)
compileAllowlist(allowlist) ==
    IF allowlist = <<>> THEN <<>>
    ELSE compileEntry(Head(allowlist)) \o compileAllowlist(Tail(allowlist))

\* matcher.test(key): [result, matcher]. An unanchored matcher searches from
\* lastIndex when it has the g flag, and leaves the end of the match there.
test(matcher, key) ==
    IF matcher.anchored
    THEN [result |-> matchesWhole(matcher.source, key),
          matcher |-> [matcher EXCEPT !.executed = TRUE]]
    ELSE LET from == IF matcher.global THEN matcher.lastIndex ELSE 0
             n == Len(matcher.source)
             starts == { i \in (from + 1)..(Len(key) - n + 1) :
                            SubSeq(key, i, i + n - 1) = matcher.source }
             first == CHOOSE i \in starts : \A j \in starts : i <= j
         IN  IF starts = {}
             THEN [result |-> FALSE,
                   matcher |-> [matcher EXCEPT !.executed = TRUE,
                                               !.lastIndex = IF matcher.global THEN 0 ELSE @]]
             ELSE [result |-> TRUE,
                   matcher |-> [matcher EXCEPT !.executed = TRUE,
                                               !.lastIndex = IF matcher.global
                                                             THEN first - 1 + n ELSE @]]

\* allowlist.some((matcher) => matcher.test(key)): [result, allowlist]
RECURSIVE someTest(_, _, _)
someTest(key, allowlist, i) ==
    IF i > Len(allowlist) THEN [result |-> FALSE, allowlist |-> allowlist]
    ELSE LET t == test(allowlist[i], key)
             after == [allowlist EXCEPT ![i] = t.matcher]
         IN  IF t.result THEN [result |-> TRUE, allowlist |-> after]
             ELSE someTest(key, after, i + 1)

\* matchesAllowlist answering true whatever the allowlist holds
matchesAllowlistAlways(key, allowlist) == [result |-> TRUE, allowlist |-> allowlist]

\* matchesAllowlist(key, allowlist): [result, allowlist]
matchesAllowlist(key, allowlist) ==
    IF Len(allowlist) = 0 THEN [result |-> TRUE, allowlist |-> allowlist]
    ELSE someTest(key, allowlist, 1)

\* uniqueKeys keeping the first key only
uniqueKeysFirstOnly(keys) == SubSeq(keys, 1, IF Len(keys) > 0 THEN 1 ELSE 0)

\* uniqueKeys(keys): Array.from(new Set(keys))
RECURSIVE uniqueKeys(_)
uniqueKeys(keys) ==
    IF keys = <<>> THEN <<>>
    ELSE LET front == SubSeq(keys, 1, Len(keys) - 1)
             rest == uniqueKeys(front)
         IN  IF \E i \in 1..Len(front) : front[i] = keys[Len(keys)] THEN rest
             ELSE Append(rest, keys[Len(keys)])

\* finalizeHunk: [declared, renames, allowlist]
finalizeHunk(removed, added, renames, allowlist) ==
    LET uniqueRemoved == uniqueKeys(removed)
        uniqueAdded == uniqueKeys(added)
        oldKey == uniqueRemoved[1]
        newKey == uniqueAdded[1]
        old == matchesAllowlist(oldKey, allowlist)
        new == matchesAllowlist(newKey, old.allowlist)
        none == [declared |-> FALSE, renames |-> renames, allowlist |-> allowlist]
    IN  IF Len(removed) = 0 /\ Len(added) = 0 THEN none
        ELSE IF ~(Len(uniqueRemoved) = 1 /\ Len(uniqueAdded) = 1) THEN none
        ELSE IF oldKey = newKey THEN none
        ELSE IF old.result
        THEN [declared |-> TRUE, allowlist |-> old.allowlist,
              renames |-> Append(renames, [oldKey |-> oldKey, newKey |-> newKey])]
        ELSE IF new.result
        THEN [declared |-> TRUE, allowlist |-> new.allowlist,
              renames |-> Append(renames, [oldKey |-> oldKey, newKey |-> newKey])]
        ELSE [declared |-> FALSE, renames |-> renames, allowlist |-> new.allowlist]

\* renameFindings without the two docPayloadKeys.has tests
renameFindingsAll(renames, docKeys, severity, file) ==
    [i \in 1..Len(renames) |->
        [source |-> "docs-drift", type |-> "payload-key-rename", severity |-> severity,
         deterministic |-> TRUE, file |-> file, oldKey |-> renames[i].oldKey,
         newKey |-> renames[i].newKey]]

\* Lines 2196-2216: the findings of a file's renames
RECURSIVE renameFindings(_, _, _, _)
renameFindings(renames, docKeys, severity, file) ==
    IF renames = <<>> THEN <<>>
    ELSE (IF Head(renames).oldKey \in docKeys /\ Head(renames).newKey \notin docKeys
          THEN << [source |-> "docs-drift", type |-> "payload-key-rename",
                   severity |-> severity, deterministic |-> TRUE, file |-> file,
                   oldKey |-> Head(renames).oldKey, newKey |-> Head(renames).newKey] >>
          ELSE <<>>)
         \o renameFindings(Tail(renames), docKeys, severity, file)

\* Payload keys: "id", "uid", "user_id", "a.c"
keyId == <<"i","d">>
keyUid == <<"u","i","d">>
keyUserId == <<"u","s","e","r","_","i","d">>
keyDotted == <<"a",".","c">>

\* The keys on the removed and on the added lines of a hunk: no key at all, one
\* key replaced by another, a key removed or kept, a key that occurs on two
\* removed lines, and two keys replaced by one
HunkKeys ==
    { [removed |-> <<>>, added |-> <<>>],
      [removed |-> <<keyId>>, added |-> <<keyUid>>],
      [removed |-> <<keyUid>>, added |-> <<keyId>>],
      [removed |-> <<keyUserId>>, added |-> <<keyUid>>],
      [removed |-> <<keyUid>>, added |-> <<keyUserId>>],
      [removed |-> <<keyDotted>>, added |-> <<keyUserId>>],
      [removed |-> <<keyId>>, added |-> <<>>],
      [removed |-> <<keyId>>, added |-> <<keyId>>],
      [removed |-> <<keyId, keyId>>, added |-> <<keyUid>>],
      [removed |-> <<keyId, keyUid>>, added |-> <<keyUid>>] }

\* Allowlists: none; "id"; "/id/g"; "/id/"; "user_*"; "a?c"; " ", "/uid/g", "id"
Allowlists ==
    { <<>>,
      << keyId >>,
      << <<"/","i","d","/","g">> >>,
      << <<"/","i","d","/">> >>,
      << <<"u","s","e","r","_","*">> >>,
      << <<"a","?","c">> >>,
      << <<" ">>, <<"/","u","i","d","/","g">>, keyId >> }

\* The keys docPayloadKeys has
DocKeySets == { {}, {keyId}, {keyId, keyUid} }

PkConfigs == [allowlist : Allowlists, docKeys : DocKeySets, severity : DocsSeverities]

\* Line 2187: compileAllowlist(...)
PkCompile ==
    /\ pkPc = "compile"
    /\ pkPc' = "file"
    /\ pkMatchers' = compileAllowlist(pkConfig.allowlist)
    /\ UNCHANGED <<pkConfig, pkFileIdx, pkHunkIdx, pkHunk, pkRenames, pkResults,
                   fnVars, cvVars, ldVars, moreVars>>

\* Lines 2190-2194: the next changed code file and its diff, skipped when empty
PkNextFile ==
    /\ pkPc = "file"
    /\ pkFileIdx < MaxFiles
    /\ pkFileIdx' = pkFileIdx + 1
    /\ \E hasDiff \in BOOLEAN : pkPc' = IF hasDiff THEN "hunk" ELSE "file"
    /\ pkHunkIdx' = 0
    /\ pkRenames' = <<>>
    /\ pkHunk' = NoHunk
    /\ UNCHANGED <<pkConfig, pkMatchers, pkResults, fnVars, cvVars, ldVars, moreVars>>

\* Lines 2227-2242: finalizeHunk for the next hunk of the diff
PkFinalizeHunk ==
    /\ pkPc = "hunk"
    /\ pkHunkIdx < MaxHunks
    /\ pkHunkIdx' = pkHunkIdx + 1
    /\ \E keys \in HunkKeys :
         LET out == finalizeHunk(keys.removed, keys.added, pkRenames, pkMatchers)
         IN  /\ pkRenames' = out.renames
             /\ pkMatchers' = out.allowlist
             /\ pkHunk' = [removed |-> keys.removed, added |-> keys.added,
                           declared |-> out.declared]
    /\ UNCHANGED <<pkPc, pkConfig, pkFileIdx, pkResults, fnVars, cvVars, ldVars, moreVars>>

\* Lines 2195-2217: findPayloadKeyRenames returns and the file's renames become
\* findings
PkFileDone ==
    /\ pkPc = "hunk"
    /\ pkPc' = "file"
    /\ pkResults' = pkResults \o renameFindings(pkRenames, pkConfig.docKeys,
                                                normalizeSeverity(pkConfig.severity, sWarning),
                                                pkFileIdx)
    /\ pkRenames' = <<>>
    /\ pkHunk' = NoHunk
    /\ UNCHANGED <<pkConfig, pkMatchers, pkFileIdx, pkHunkIdx, fnVars, cvVars, ldVars, moreVars>>

\* Line 2219: return results
PkReturn ==
    /\ pkPc = "file"
    /\ pkPc' = "returned"
    /\ UNCHANGED <<pkConfig, pkMatchers, pkFileIdx, pkHunkIdx, pkHunk, pkRenames, pkResults,
                   fnVars, cvVars, ldVars, moreVars>>

InitPk ==
    /\ InitFnIdle
    /\ InitCv
    /\ InitLdIdle
    /\ InitMoreIdle
    /\ InitPkAt("compile")
    /\ pkConfig \in PkConfigs

NextPk ==
    \/ PkCompile
    \/ PkNextFile
    \/ PkFinalizeHunk
    \/ PkFileDone
    \/ PkReturn

SpecPk == InitPk /\ [][NextPk]_vars

(***************************************************************************)
(* Properties of payload-key renames                                       *)
(***************************************************************************)
\* A hunk has just been finalized and a rename was reported for it
HunkDeclared == pkPc = "hunk" /\ pkHunkIdx > 0 /\ pkHunk.declared

RECURSIVE globMatch(_, _)
globMatch(pattern, key) ==
    IF pattern = <<>> THEN key = <<>>
    ELSE IF Head(pattern) = "*"
    THEN globMatch(Tail(pattern), key) \/ (key # <<>> /\ globMatch(pattern, Tail(key)))
    ELSE /\ key # <<>>
         /\ Head(pattern) = "?" \/ Head(pattern) = Head(key)
         /\ globMatch(Tail(pattern), Tail(key))

entryAllows(entry, key) ==
    LET raw == trim(entry)
        lastSlash == lastIndexOf(raw, "/")
        body == SubSeq(raw, 2, lastSlash - 1)
    IN  IF raw = <<>> THEN FALSE
        ELSE IF Head(raw) = "/" /\ lastSlash > 1
        THEN \E i \in 1..(Len(key) - Len(body) + 1) : SubSeq(key, i, i + Len(body) - 1) = body
        ELSE IF includesChar(raw, "*") \/ includesChar(raw, "?") THEN globMatch(raw, key)
        ELSE raw = key

inAllowlist(key) == \E i \in 1..Len(pkConfig.allowlist) : entryAllows(pkConfig.allowlist[i], key)

\* C13 as stated: a rename is reported for a hunk only if the old key or the
\* new key is in the allowlist.
C13_DeclaredOnlyIfAllowlisted ==
    HunkDeclared => inAllowlist(pkHunk.removed[1]) \/ inAllowlist(pkHunk.added[1])

\* C13, amended: a rename is reported for a hunk only if the allowlist compiles
\* to no matcher at all, or the old key or the new key is in the allowlist.
C13_DeclaredOnlyIfAllowlistedOrNoMatcher ==
    HunkDeclared => \/ Len(pkMatchers) = 0
                    \/ inAllowlist(pkHunk.removed[1])
                    \/ inAllowlist(pkHunk.added[1])

\* A rename was reported under an allowlist with matchers that admits the new
\* key and not the old one
C13_Witness ==
    /\ HunkDeclared
    /\ Len(pkMatchers) > 0
    /\ ~inAllowlist(pkHunk.removed[1])
    /\ inAllowlist(pkHunk.added[1])

\* C14: every payload-key-rename finding is about a rename whose old key is
\* among the payload keys of the documentation and whose new key is not.
C14_FindingOnlyIfDocsHaveOldNotNew ==
    \A i \in 1..Len(pkResults) :
        /\ pkResults[i].type = "payload-key-rename"
        /\ pkResults[i].oldKey \in pkConfig.docKeys
        /\ pkResults[i].newKey \notin pkConfig.docKeys

\* A file's renames were compared with two documented keys and one of them
\* became a finding
C14_Witness ==
    /\ pkPc = "file"
    /\ Len(pkResults) = 1
    /\ Cardinality(pkConfig.docKeys) = 2

(***************************************************************************)
(* Properties of the patterns of the configuration                         *)
(***************************************************************************)
\* C8 as stated: a regular expression of the configuration that was executed on
\* diff text, policy text or payload keys was validated before.
C8_ExecutedOnlyAfterValidation ==
    /\ \A i \in 1..Len(pkMatchers) :
          (pkMatchers[i].form = "regex" /\ pkMatchers[i].executed) => pkMatchers[i].validated
    /\ (~ldRegex.code.null /\ ldRegex.code.executed) => ldRegex.code.validated
    /\ (~ldRegex.policy.null /\ ldRegex.policy.executed) => ldRegex.policy.validated

(***************************************************************************)
(* runDocsRule and resolveFullScan (docsDrift.js)                          *)
(*                                                                         *)
(* The rule has code patterns, and the files they match hold function      *)
(* declarations only, so that of the comparisons of lines 414-425 only     *)
(* compareFunctions has entities to compare. The LLM is disabled and the   *)
(* rule does not extract payload keys. Files are named by numbers; a       *)
(* changed file that is not among the files of the repository was deleted. *)
(***************************************************************************)
DEFAULT_MAX_ENTITIES == 200
MaxRepoFiles == 2
MaxCeiling == 2

\* resolveFullScan in auto mode choosing the full scan whenever code files exist
resolveFullScanNoCeiling(rule, codeFiles, changedCodeFiles) ==
    IF rule.fullScan = "false"
    THEN [resolved |-> TRUE, fullScan |-> FALSE, codeFilesToScan |-> changedCodeFiles]
    ELSE [resolved |-> TRUE, fullScan |-> TRUE, codeFilesToScan |-> codeFiles]

\* resolveFullScan(rule, repoRoot, changedCodeFiles); codeFiles is what
\* findFiles(repoRoot, codePatterns) returns, and rule.fullScanMaxFiles is the
\* finite number normalizeConfig leaves there
resolveFullScan(rule, codeFiles, changedCodeFiles) ==
    IF rule.fullScan = "true"
    THEN [resolved |-> TRUE, fullScan |-> TRUE, codeFilesToScan |-> codeFiles]
    ELSE IF rule.fullScan = "false"
    THEN [resolved |-> TRUE, fullScan |-> FALSE, codeFilesToScan |-> changedCodeFiles]
    ELSE IF Cardinality(codeFiles) > 0 /\ Cardinality(codeFiles) <= rule.fullScanMaxFiles
    THEN [resolved |-> TRUE, fullScan |-> TRUE, codeFilesToScan |-> codeFiles]
    ELSE [resolved |-> TRUE, fullScan |-> FALSE, codeFilesToScan |-> changedCodeFiles]

\* limitEntitiesByType(entities, maxPerType)
RECURSIVE limitLoop(_, _, _, _)
limitLoop(ents, maxPerType, i, limited) ==
    IF i > Len(ents) THEN limited
    ELSE IF Len(SelectSeq(limited, LAMBDA e : e.type = ents[i].type)) >= maxPerType
    THEN limitLoop(ents, maxPerType, i + 1, limited)
    ELSE limitLoop(ents, maxPerType, i + 1, Append(limited, ents[i]))

limitEntitiesByType(ents, maxPerType) == limitLoop(ents, maxPerType, 1, <<>>)

\* The functions the scanned files declare, and the call-shaped tokens of the
\* documentation files
DrCodeEntities ==
    { buildEntity("function", nameF, <<"a">>, codeFile),
      buildEntity("function", nameG, <<"a">>, codeFile) }
DrDocMatches ==
    { [name |-> nameF, params |-> <<"a">>, file |-> docFile],
      [name |-> nameF, params |-> <<":", "i", "d">>, file |-> docFile] }

DrRules ==
    [hasDocPatterns : BOOLEAN, fullScan : {"true", "false", "auto"},
     fullScanMaxFiles : 1..MaxCeiling, extractFunctions : BOOLEAN,
     maxEntities : {0, 1}]
DrRepos ==
    [codeFiles : SUBSET (1..MaxRepoFiles), changedFiles : SUBSET (1..MaxRepoFiles),
     changedDocs : BOOLEAN]

\* Lines 352-371: the patterns of the rule, the changed files that match them,
\* the scan decision, and the two early returns on it
DrResolve ==
    /\ drPc = "start"
    /\ IF ~drRule.hasDocPatterns
       THEN drPc' = "returned" /\ UNCHANGED drScan
       ELSE LET scan == resolveFullScan(drRule, drRepo.codeFiles, drRepo.changedFiles)
            IN  /\ drScan' = scan
                /\ drPc' = IF ~scan.fullScan /\ drRepo.changedFiles = {} THEN "returned"
                           ELSE IF /\ scan.fullScan
                                   /\ drRepo.changedFiles = {}
                                   /\ ~drRepo.changedDocs THEN "returned"
                           ELSE "extract"
    /\ UNCHANGED <<drRule, drRepo, drEntities, fnVars, cvVars, ldVars, pkVars, epVars, npVars, lateVars>>

\* Lines 373-392: the entities of the files to scan that exist, the return when
\* there is none, and limitEntitiesByType
DrExtract ==
    /\ drPc = "extract"
    /\ \E ents \in BoundedSeqs(DrCodeEntities, 0, MaxFns) :
          /\ drScan.codeFilesToScan \cap drRepo.codeFiles = {} => ents = <<>>
          /\ ~drRule.extractFunctions => ents = <<>>
          /\ drEntities' = ents
          /\ entities' = limitEntitiesByType(ents, IF drRule.maxEntities = 0
                                                   THEN DEFAULT_MAX_ENTITIES
                                                   ELSE drRule.maxEntities)
          /\ drPc' = IF ents = <<>> THEN "returned" ELSE "docs"
    /\ UNCHANGED <<drRule, drRepo, drScan, docMatches, fnArgs, fnPc, fnResults,
                   cvVars, ldVars, pkVars, epVars, npVars, lateVars>>

\* Lines 397-411: the documentation files, the return when there is none, and
\* their contents
DrFindDocs ==
    /\ drPc = "docs"
    /\ \E found \in BOOLEAN :
          IF ~found
          THEN drPc' = "returned" /\ UNCHANGED docMatches
          ELSE /\ drPc' = "compare"
               /\ docMatches' \in BoundedSeqs(DrDocMatches, 0, MaxDocs)
    /\ UNCHANGED <<drRule, drRepo, drScan, drEntities, entities, fnArgs, fnPc, fnResults,
                   cvVars, ldVars, pkVars, epVars, npVars, lateVars>>

\* Lines 413-426: compareFunctions, whose exception leaves runDocsRule, and the
\* other comparisons, which find no entity of their type
\* name.replace(/^Event:\s*/i, '')
eventName(name) ==
    IF startsWith(toLowerCase(name), <<"e","v","e","n","t",":">>)
    THEN TrimLeft(SubSeq(name, 7, Len(name)))
    ELSE name

\* compareEventHandlers(entities, docsText, config): one event-missing-doc
\* finding for each event name, compared in lower case, that the docs do not
\* contain
RECURSIVE compareEventHandlers(_, _, _, _)
compareEventHandlers(events, docsText, severity, seen) ==
    IF events = <<>> THEN <<>>
    ELSE LET normalized == toLowerCase(eventName(Head(events).name))
             rest == compareEventHandlers(Tail(events), docsText, severity,
                                          seen \cup {normalized})
         IN  IF normalized \in seen \/ includes(toLowerCase(docsText), normalized) THEN rest
             ELSE << [source |-> "docs-drift", type |-> "event-missing-doc",
                      severity |-> normalizeSeverity(severity, sInfo),
                      deterministic |-> TRUE, file |-> Head(events).file,
                      subject |-> eventName(Head(events).name)] >> \o rest

\* Lines 416-429: the comparators that the model follows, compareFunctions and
\* compareEventHandlers, on the function entities and on the event entities
\* of the scanned files
DrCompare(EventLists, DocsTexts) ==
    /\ drPc = "compare"
    /\ \E severity \in DocsSeverities, events \in EventLists, docsText \in DocsTexts :
          LET out == compareFunctions(entities, docMatches, severity, drScan.fullScan)
          IN  /\ drPc' = IF out.threw THEN "threw" ELSE "finish"
              /\ fnResults' = IF out.threw THEN out.results
                               ELSE out.results
                                    \o compareEventHandlers(events, docsText, severity, {})
              /\ fnArgs' = [severity |-> severity, fullScan |-> drScan.fullScan]
    /\ UNCHANGED <<drRule, drRepo, drScan, drEntities, entities, docMatches, fnPc,
                   cvVars, ldVars, pkVars, epVars, npVars, lateVars>>

\* A response of the LLM as safeParseJson returns it, and what lines 431 and
\* 437 find: the LLM is disabled; the response is no JSON or has no drifts
\* array; or it has one
NoDocsLlm == [enabled |-> FALSE, parsed |-> FALSE, drifts |-> <<>>]
NoDrift == [null |-> FALSE, type |-> "", severity |-> <<>>, explanation |-> <<>>,
            suggestion |-> <<>>, file |-> noFile]

\* Lines 447-455 with every LLM finding marked deterministic
docsLlmDriftsDeterministic(drifts, severity) ==
    LET mapped == [i \in 1..Len(drifts) |->
                     [source |-> "docs-drift-llm",
                      type |-> IF drifts[i].type # "" THEN drifts[i].type ELSE "docs-drift",
                      severity |-> normalizeSeverity(drifts[i].severity, severity),
                      deterministic |-> TRUE,
                      explanation |-> drifts[i].explanation,
                      file |-> drifts[i].file,
                      suggestion |-> drifts[i].suggestion]]
    IN  SelectSeq(mapped, LAMBDA item : \/ item.explanation # <<>>
                                        \/ item.suggestion # <<>>
                                        \/ item.file # noFile)

\* Lines 447-455: the findings made of data.drifts, none of which is null
docsLlmDrifts(drifts, severity) ==
    LET mapped == [i \in 1..Len(drifts) |->
                     [source |-> "docs-drift-llm",
                      type |-> IF drifts[i].type # "" THEN drifts[i].type ELSE "docs-drift",
                      severity |-> normalizeSeverity(drifts[i].severity, severity),
                      deterministic |-> FALSE,
                      explanation |-> drifts[i].explanation,
                      file |-> drifts[i].file,
                      suggestion |-> drifts[i].suggestion]]
    IN  SelectSeq(mapped, LAMBDA item : \/ item.explanation # <<>>
                                        \/ item.suggestion # <<>>
                                        \/ item.file # noFile)

\* Lines 431-457: what the LLM analysis pushes; reading a field of a null
\* element of data.drifts throws a TypeError
docsLlmFindings(data, severity) ==
    IF ~data.enabled THEN [threw |-> FALSE, results |-> <<>>]
    ELSE IF ~data.parsed
    THEN [threw |-> FALSE,
          results |-> << [source |-> "docs-drift-llm",
                          type |-> "llm-parse-error",
                          severity |-> sWarning,
                          deterministic |-> FALSE] >>]
    ELSE IF \E i \in 1..Len(data.drifts) : data.drifts[i].null
    THEN [threw |-> TRUE, results |-> <<>>]
    ELSE [threw |-> FALSE, results |-> docsLlmDrifts(data.drifts, severity)]

\* Lines 472-476: the results carry the rule's name when it has one
tagRule(results, name) ==
    IF name = <<>> THEN results
    ELSE [i \in 1..Len(results) |-> results[i] @@ [rule |-> name]]

\* Lines 428-477: the LLM analysis and the rule's name; the rule does not
\* extract payload keys
DrFinish(Responses) ==
    /\ drPc = "finish"
    /\ \E name \in {<<>>, <<"a", "p", "i">>}, data \in Responses :
          LET llm == docsLlmFindings(data, fnArgs.severity)
          IN  IF llm.threw
              THEN drPc' = "threw" /\ UNCHANGED fnResults
              ELSE /\ drPc' = "returned"
                   /\ fnResults' = tagRule(fnResults \o llm.results, name)
    /\ UNCHANGED <<drRule, drRepo, drScan, drEntities, entities, docMatches, fnArgs, fnPc,
                   cvVars, ldVars, pkVars, epVars, npVars, lateVars>>

InitDr ==
    /\ InitFnIdle
    /\ InitCv
    /\ InitLdIdle
    /\ InitPkIdle
    /\ InitEpIdle
    /\ InitNpIdle
    /\ InitLateIdle
    /\ drPc = "start"
    /\ drRule \in DrRules
    /\ drRepo \in DrRepos
    /\ drScan = NoScan
    /\ drEntities = <<>>

NextDr ==
    \/ DrResolve
    \/ DrExtract
    \/ DrFindDocs
    \/ DrCompare({<<>>}, {<<>>})
    \/ DrFinish({NoDocsLlm})

SpecDr == InitDr /\ [][NextDr]_vars

(***************************************************************************)
(* Properties of runDocsRule                                               *)
(***************************************************************************)
\* C16 as stated: in auto mode the rule scans in full exactly when the number
\* of repository files matching its code patterns is below fullScanMaxFiles,
\* and otherwise scans the changed code files.
C16_FullScanBelowCeiling ==
    drScan.resolved /\ drRule.fullScan = "auto"
        => /\ drScan.fullScan <=> Cardinality(drRepo.codeFiles) < drRule.fullScanMaxFiles
           /\ ~drScan.fullScan => drScan.codeFilesToScan = drRepo.changedFiles

\* C16, amended: in auto mode the rule scans in full, every matching file of
\* the repository, exactly when there is at least one such file and there are
\* at most fullScanMaxFiles of them, and otherwise scans the changed code files.
C16_FullScanUpToCeiling ==
    drScan.resolved /\ drRule.fullScan = "auto"
        => /\ drScan.fullScan <=> /\ Cardinality(drRepo.codeFiles) >= 1
                                  /\ Cardinality(drRepo.codeFiles) <= drRule.fullScanMaxFiles
           /\ drScan.fullScan => drScan.codeFilesToScan = drRepo.codeFiles
           /\ ~drScan.fullScan => drScan.codeFilesToScan = drRepo.changedFiles

\* An auto rule went on with a full scan of exactly fullScanMaxFiles files
C16_Witness ==
    /\ drPc = "extract"
    /\ drRule.fullScan = "auto"
    /\ drScan.fullScan
    /\ Cardinality(drRepo.codeFiles) = drRule.fullScanMaxFiles

\* C17 as stated: when runDocsRule has ended for a rule that extracts
\* functions, with a changed code file, every function extracted from the
\* scanned files whose name no documented function has is the subject of a
\* function-missing-doc finding of the configured docs-drift severity.
C17_UndocumentedFunctionReported ==
    drPc \in {"returned", "threw"} /\ drRule.extractFunctions /\ drRepo.changedFiles # {}
        => \A i \in 1..Len(drEntities) :
              drEntities[i].type = "function" /\ drEntities[i].name \notin DocNames
                  => \E j \in 1..Len(fnResults) :
                        /\ fnResults[j].type = "function-missing-doc"
                        /\ fnResults[j].seenKey = fnSeenKey(drEntities[i])
                        /\ fnResults[j].severity = normalizeSeverity(fnArgs.severity, sWarning)

(***************************************************************************)
(* compareEndpoints, parseEndpointName, normalizePath (docsDrift.js)       *)
(***************************************************************************)
MaxEndpoints == 2
MaxDocEndpoints == 2

toUpperChar(c) ==
    IF c \in Lower THEN UpperSeq[CHOOSE i \in 1..Len(LowerSeq) : LowerSeq[i] = c] ELSE c

\* String.prototype.toUpperCase
toUpperCase(s) == [i \in 1..Len(s) |-> toUpperChar(s[i])]

\* parseEndpointName(name): [null, method, path]
parseEndpointName(name) ==
    LET parts == tokens(name)
    IN  IF Len(parts) < 2 THEN [null |-> TRUE, method |-> <<>>, path |-> <<>>]
        ELSE [null |-> FALSE, method |-> toUpperCase(parts[1]),
              path |-> join(Tail(parts), <<" ">>)]

paramText == <<":", "p", "a", "r", "a", "m">>

\* s.replace(/\/+$/, '')
RECURSIVE stripTrailingSlashes(_)
stripTrailingSlashes(s) ==
    IF s # <<>> /\ s[Len(s)] = "/" THEN stripTrailingSlashes(SubSeq(s, 1, Len(s) - 1)) ELSE s

\* s.replace(/\{[^}]+\}/g, ':param')
RECURSIVE replaceBraces(_)
replaceBraces(s) ==
    IF s = <<>> THEN <<>>
    ELSE IF Head(s) = "{" /\ firstIndex(s, "}") >= 3
    THEN paramText \o replaceBraces(SubSeq(s, firstIndex(s, "}") + 1, Len(s)))
    ELSE <<Head(s)>> \o replaceBraces(Tail(s))

\* s.replace(/:[^/]+/g, ':param')
RECURSIVE replaceColons(_)
replaceColons(s) ==
    IF s = <<>> THEN <<>>
    ELSE IF Head(s) = ":" /\ Len(s) >= 2 /\ s[2] # "/"
    THEN LET slash == firstIndex(Tail(s), "/")
         IN  paramText \o (IF slash = 0 THEN <<>>
                           ELSE replaceColons(SubSeq(s, slash + 1, Len(s))))
    ELSE <<Head(s)>> \o replaceColons(Tail(s))

\* normalizePath without the replacement of {name}
normalizePathNoBraces(pathValue) ==
    LET normalized == replaceColons(stripTrailingSlashes(trim(pathValue)))
    IN  IF pathValue = <<>> THEN <<>>
        ELSE IF normalized = <<>> THEN <<"/">> ELSE normalized

\* normalizePath(pathValue)
normalizePath(pathValue) ==
    LET normalized == replaceColons(replaceBraces(stripTrailingSlashes(trim(pathValue))))
    IN  IF pathValue = <<>> THEN <<>>
        ELSE IF normalized = <<>> THEN <<"/">> ELSE normalized

\* extractDocEndpoints over the matches of its pattern METHOD path, in document
\* order: each match is [method, path, file]
extractDocEndpoints(matches) ==
    LET kept == SelectSeq(matches, LAMBDA m : startsWith(m.path, <<"/">>))
    IN  [i \in 1..Len(kept) |->
            [method |-> toUpperCase(kept[i].method), path |-> kept[i].path,
             file |-> kept[i].file]]

\* `${method} ${normalizedPath}`
endpointKey(method, path) == method \o <<" ">> \o normalizePath(path)

\* A finding of compareEndpoints; key names the endpoint it is about
EpFinding(type, severity, file, method, path) ==
    [source |-> "docs-drift", type |-> type, severity |-> severity, deterministic |-> TRUE,
     file |-> file, method |-> method, path |-> path, key |-> endpointKey(method, path)]

\* docMap.get(normalizedPath): the methods the docs list for the path
docMethodsOf(docEndpoints, path) ==
    { docEndpoints[i].method :
        i \in { j \in 1..Len(docEndpoints) :
                  normalizePath(docEndpoints[j].path) = normalizePath(path) } }

\* endpointFindings with the two types exchanged
endpointFindingsSwapped(file, parsed, docMethods, severity) ==
    IF docMethods = {}
    THEN << EpFinding("endpoint-method-mismatch", severity, file, parsed.method, parsed.path) >>
    ELSE IF parsed.method \notin docMethods
    THEN << EpFinding("endpoint-missing-doc", severity, file, parsed.method, parsed.path) >>
    ELSE <<>>

\* Lines 1382-1406: what the loop pushes for a code endpoint that was not seen
endpointFindings(file, parsed, docMethods, severity) ==
    IF docMethods = {}
    THEN << EpFinding("endpoint-missing-doc", severity, file, parsed.method, parsed.path) >>
    ELSE IF parsed.method \notin docMethods
    THEN << EpFinding("endpoint-method-mismatch", severity, file, parsed.method, parsed.path) >>
    ELSE <<>>

\* Lines 1368-1407: the loop over codeEndpoints
RECURSIVE endpointLoop(_, _, _, _, _, _)
endpointLoop(codeEndpoints, docEndpoints, severity, i, seen, results) ==
    IF i > Len(codeEndpoints) THEN results
    ELSE IF parseEndpointName(codeEndpoints[i].name).null
    THEN endpointLoop(codeEndpoints, docEndpoints, severity, i + 1, seen, results)
    ELSE IF endpointKey(parseEndpointName(codeEndpoints[i].name).method,
                        parseEndpointName(codeEndpoints[i].name).path) \in seen
    THEN endpointLoop(codeEndpoints, docEndpoints, severity, i + 1, seen, results)
    ELSE endpointLoop(codeEndpoints, docEndpoints, severity, i + 1,
                      seen \cup {endpointKey(parseEndpointName(codeEndpoints[i].name).method,
                                             parseEndpointName(codeEndpoints[i].name).path)},
                      results \o endpointFindings(
                          codeEndpoints[i].file, parseEndpointName(codeEndpoints[i].name),
                          docMethodsOf(docEndpoints,
                                       parseEndpointName(codeEndpoints[i].name).path),
                          severity))

\* codeEndpointSet: the keys of the code endpoints that parse
codeEndpointKeys(codeEndpoints) ==
    { endpointKey(parseEndpointName(codeEndpoints[i].name).method,
                  parseEndpointName(codeEndpoints[i].name).path) :
        i \in { j \in 1..Len(codeEndpoints) : ~parseEndpointName(codeEndpoints[j].name).null } }

\* Lines 1409-1427: the fullScan loop over docEndpoints
RECURSIVE docEndpointLoop(_, _, _, _, _)
docEndpointLoop(docEndpoints, codeKeys, severity, i, results) ==
    IF i > Len(docEndpoints) THEN results
    ELSE IF endpointKey(docEndpoints[i].method, docEndpoints[i].path) \in codeKeys
    THEN docEndpointLoop(docEndpoints, codeKeys, severity, i + 1, results)
    ELSE docEndpointLoop(docEndpoints, codeKeys, severity, i + 1,
                         Append(results,
                                EpFinding("docs-mentions-missing-endpoint", severity,
                                          docEndpoints[i].file, docEndpoints[i].method,
                                          docEndpoints[i].path)))

\* compareEndpoints(entities, docEntries, config, fullScan); matches are what
\* extractDocEndpoints' pattern finds in docEntries
compareEndpoints(ents, matches, severity, full) ==
    LET codeEndpoints == SelectSeq(ents, LAMBDA e : e.type = "endpoint")
        sev == normalizeSeverity(severity, sWarning)
        matched == endpointLoop(codeEndpoints, extractDocEndpoints(matches), sev, 1, {}, <<>>)
    IN  IF Len(codeEndpoints) = 0 THEN <<>>
        ELSE IF full
        THEN docEndpointLoop(extractDocEndpoints(matches), codeEndpointKeys(codeEndpoints),
                             sev, 1, matched)
        ELSE matched

\* Code entities: GET /u/{id}, get /u/:id/, POST /u/:n, GET /i, an endpoint
\* whose name has no path, and a function
EpEntities ==
    { buildEntity("endpoint", n, <<>>, codeFile) :
        n \in { <<"G","E","T"," ","/","u","/","{","i","d","}">>,
                <<"g","e","t"," ","/","u","/",":","i","d","/">>,
                <<"P","O","S","T"," ","/","u","/",":","n">>,
                <<"G","E","T"," ","/","i">>,
                <<"G","E","T">> } }
      \cup { buildEntity("function", nameF, <<>>, codeFile) }

\* Endpoint mentions of the docs: GET /u/{id}, get /u/:id/, POST /i, and GET i,
\* which is no path
EpDocMatches ==
    { [method |-> <<"G","E","T">>, path |-> <<"/","u","/","{","i","d","}">>, file |-> docFile],
      [method |-> <<"g","e","t">>, path |-> <<"/","u","/",":","i","d","/">>, file |-> docFile],
      [method |-> <<"P","O","S","T">>, path |-> <<"/","i">>, file |-> docFile],
      [method |-> <<"G","E","T">>, path |-> <<"i">>, file |-> docFile] }

CompareEndpoints ==
    /\ epPc = "ready"
    /\ epPc' = "returned"
    /\ epOut' = compareEndpoints(epIn.entities, epIn.docs, epIn.severity, epIn.fullScan)
    /\ UNCHANGED <<epIn, fnVars, cvVars, ldVars, pkVars, drVars, npVars, lateVars>>

InitEp ==
    /\ InitFnIdle
    /\ InitCv
    /\ InitLdIdle
    /\ InitPkIdle
    /\ InitDrIdle
    /\ InitNpIdle
    /\ InitLateIdle
    /\ epIn \in [entities : BoundedSeqs(EpEntities, 0, MaxEndpoints),
                 docs : BoundedSeqs(EpDocMatches, 0, MaxDocEndpoints),
                 severity : DocsSeverities, fullScan : BOOLEAN]
    /\ epPc = "ready"
    /\ epOut = <<>>

NextEp == CompareEndpoints

SpecEp == InitEp /\ [][NextEp]_vars

(***************************************************************************)
(* Properties of compareEndpoints                                          *)
(***************************************************************************)
\* The code endpoints of the input that have a method and a path, the doc
\* endpoints of the input, and the findings about one code endpoint
EpParsed ==
    { parseEndpointName(epIn.entities[i].name) :
        i \in { j \in 1..Len(epIn.entities) :
                  /\ epIn.entities[j].type = "endpoint"
                  /\ ~parseEndpointName(epIn.entities[j].name).null } }
EpDocs == { m \in Range(epIn.docs) : Head(m.path) = "/" }
EpDocPaths == { normalizePath(d.path) : d \in EpDocs }
EpDocMethods(path) ==
    { toUpperCase(d.method) : d \in { m \in EpDocs : normalizePath(m.path) = path } }
EpFindingsFor(e) ==
    SelectSeq(epOut, LAMBDA r : /\ r.key = endpointKey(e.method, e.path)
                                /\ r.type # "docs-mentions-missing-endpoint")

\* C18: for every distinct code endpoint, the findings about it are exactly one
\* endpoint-missing-doc when the docs do not have its normalised path, exactly
\* one endpoint-method-mismatch when they have the path without its method, and
\* none when they have the path with its method.
C18_OneFindingPerEndpoint ==
    epPc = "returned"
        => \A e \in EpParsed :
              LET found == EpFindingsFor(e)
              IN  IF normalizePath(e.path) \notin EpDocPaths
                  THEN Len(found) = 1 /\ found[1].type = "endpoint-missing-doc"
                  ELSE IF e.method \notin EpDocMethods(normalizePath(e.path))
                  THEN Len(found) = 1 /\ found[1].type = "endpoint-method-mismatch"
                  ELSE found = <<>>

\* Two code endpoints with one key and a documented path without their method:
\* one endpoint-method-mismatch
C18_Witness ==
    /\ epPc = "returned"
    /\ Len(epIn.entities) = 2
    /\ \A i \in 1..2 : /\ epIn.entities[i].type = "endpoint"
                        /\ ~parseEndpointName(epIn.entities[i].name).null
    /\ \E e \in EpParsed :
          /\ \A o \in EpParsed : endpointKey(o.method, o.path) = endpointKey(e.method, e.path)
          /\ normalizePath(e.path) \in EpDocPaths
          /\ e.method \notin EpDocMethods(normalizePath(e.path))
          /\ Len(EpFindingsFor(e)) = 1

\* A path with every {name} written :name, and without trailing slashes
RECURSIVE bracesAsColons(_)
bracesAsColons(s) ==
    IF s = <<>> THEN <<>>
    ELSE IF Head(s) = "{" /\ firstIndex(s, "}") >= 3
    THEN <<":">> \o SubSeq(s, 2, firstIndex(s, "}") - 1)
               \o bracesAsColons(SubSeq(s, firstIndex(s, "}") + 1, Len(s)))
    ELSE <<Head(s)>> \o bracesAsColons(Tail(s))

DifferInSyntaxOnly(p, q) ==
    bracesAsColons(stripTrailingSlashes(p)) = bracesAsColons(stripTrailingSlashes(q))

\* C19: a code endpoint and a doc endpoint whose paths differ only in the
\* placeholder syntax or a trailing slash have the same normalizePath result,
\* and when their methods agree too there is no finding about either.
C19_PlaceholderSyntaxIgnored ==
    epPc = "returned"
        => \A e \in EpParsed, d \in EpDocs :
              DifferInSyntaxOnly(e.path, d.path)
                  => /\ normalizePath(e.path) = normalizePath(d.path)
                     /\ e.method = toUpperCase(d.method)
                          => \A i \in 1..Len(epOut) :
                                epOut[i].key # endpointKey(e.method, e.path)

\* GET /u/{id} in the code and get /u/:id/ in the docs, full scan, no finding
C19_Witness ==
    /\ epPc = "returned"
    /\ epIn.fullScan
    /\ epOut = <<>>
    /\ \E e \in EpParsed, d \in EpDocs :
          /\ e.path # d.path
          /\ includesChar(e.path, "{")
          /\ DifferInSyntaxOnly(e.path, d.path)
          /\ e.method = toUpperCase(d.method)

(***************************************************************************)
(* normalizeParamList applied to a parameter text, and again to its        *)
(* comma-joined result                                                     *)
(***************************************************************************)
MaxParams == 2

\* One parameter as code and docs write it: a, " b ", ...rest, x?, c = 1,
\* n: string, String name, name string, cb(), opts.a, [a, b], :id
ParamTexts ==
    { <<"a">>, <<" ", "b", " ">>, <<".", ".", ".", "r", "e", "s", "t">>, <<"x", "?">>,
      <<"c", " ", "=", " ", "1">>, <<"n", ":", " ", "s", "t", "r", "i", "n", "g">>,
      <<"S", "t", "r", "i", "n", "g", " ", "n", "a", "m", "e">>,
      <<"n", "a", "m", "e", " ", "s", "t", "r", "i", "n", "g">>,
      <<"c", "b", "(", ")">>, <<"o", "p", "t", "s", ".", "a">>,
      <<"[", "a", ",", " ", "b", "]">>, <<":", "i", "d">> }

\* The parameter-list texts: up to MaxParams parameters separated by commas
ParamListTexts == { join(ps, <<",">>) : ps \in BoundedSeqs(ParamTexts, 0, MaxParams) }

\* normalizeParamList(text)
NormalizeOnce ==
    /\ npPc = "ready"
    /\ IF paramListThrows(npIn)
       THEN npPc' = "threw" /\ UNCHANGED npOut
       ELSE npPc' = "once" /\ npOut' = [npOut EXCEPT !.once = normalizeParamList(npIn)]
    /\ UNCHANGED <<npIn, fnVars, cvVars, ldVars, pkVars, drVars, epVars, lateVars>>

\* normalizeParamList(paramKey(list)) for the list the first call returned
NormalizeTwice ==
    /\ npPc = "once"
    /\ IF paramListThrows(paramKey(npOut.once))
       THEN npPc' = "threw" /\ UNCHANGED npOut
       ELSE /\ npPc' = "twice"
            /\ npOut' = [npOut EXCEPT !.twice = normalizeParamList(paramKey(npOut.once))]
    /\ UNCHANGED <<npIn, fnVars, cvVars, ldVars, pkVars, drVars, epVars, lateVars>>

InitNp ==
    /\ InitFnIdle
    /\ InitCv
    /\ InitLdIdle
    /\ InitPkIdle
    /\ InitDrIdle
    /\ InitEpIdle
    /\ InitLateIdle
    /\ npIn \in ParamListTexts
    /\ npPc = "ready"
    /\ npOut = [once |-> <<>>, twice |-> <<>>]

NextNp ==
    \/ NormalizeOnce
    \/ NormalizeTwice

SpecNp == InitNp /\ [][NextNp]_vars

\* C20 as stated: for every parameter-list text, normalizeParamList returns a
\* list, and normalizing the comma-joined list returns the same list.
C20_NormalizeIdempotent ==
    /\ npPc # "threw"
    /\ npPc = "twice" => npOut.twice = npOut.once

\* The same on the texts for which normalizeParamList returns
RenormalizesToSameList == npPc = "twice" => npOut.twice = npOut.once

(***************************************************************************)
(* extractEntities, validateContent, safeExtract (docsDrift.js)            *)
(*                                                                         *)
(* The file is a JavaScript file, so that the extractors are the ones of   *)
(* the else branches. Its content is a sequence of lines followed by       *)
(* blanks: declarations of functions with lower-case names, method         *)
(* definitions, class declarations without a base class, and command-line  *)
(* flags. No pattern of the other extractors matches such lines. A match's *)
(* index is the number of its line. rule.extract is an array of names.     *)
(***************************************************************************)
MAX_CONTENT_LENGTH == 5000000
MaxLines == 2
MaxThrows == 1
ManyLines == 1001

\* validateContent(content, file).valid without the test for a null byte
validateContentNoBinary(content) ==
    /\ content.isString
    /\ content.length > 0
    /\ ~(content.length > MAX_CONTENT_LENGTH)

\* validateContent(content, file).valid
validateContent(content) ==
    /\ content.isString
    /\ content.length > 0
    /\ ~(content.length > MAX_CONTENT_LENGTH)
    /\ ~content.hasNull

\* The lines of a file: "function f(a)", "f(a) {", "if (a) {", "class A",
\* "--v"
fnLine == [kind |-> "function", name |-> nameF, params |-> <<"a">>]
methodLine == [kind |-> "method", name |-> nameF, params |-> <<"a">>]
ifLine == [kind |-> "method", name |-> <<"i", "f">>, params |-> <<"a">>]
classLine == [kind |-> "class", name |-> <<"A">>, params |-> <<>>]
flagLine == [kind |-> "flag", name |-> <<"-", "-", "v">>, params |-> <<>>]
ExLines == {fnLine, methodLine, ifLine, classLine, flagLine}

\* The text of a line, with its line break
lineText(line) ==
    IF line.kind = "function"
    THEN <<"f","u","n","c","t","i","o","n"," ">> \o line.name \o <<"(">> \o line.params
         \o <<")", "\n">>
    ELSE IF line.kind = "method"
    THEN line.name \o <<"(">> \o line.params \o <<")", " ", "{", "\n">>
    ELSE IF line.kind = "class"
    THEN <<"c","l","a","s","s"," ">> \o line.name \o <<"\n">>
    ELSE line.name \o <<"\n">>

RECURSIVE textLength(_)
textLength(lines) ==
    IF lines = <<>> THEN 0 ELSE Len(lineText(Head(lines))) + textLength(Tail(lines))

\* The patterns of extractJsFunctions, in order, by the kind of line each
\* matches: the first one function declarations, the fourth and the fifth
\* one method definitions; the arrow-function and TypeScript patterns match
\* no line of the file
JsPatternKinds == <<"function", "arrow", "arrow", "method", "method", "typed", "typed">>

jsFalsePositives == {
    <<"i","f">>, <<"f","o","r">>, <<"w","h","i","l","e">>, <<"s","w","i","t","c","h">>,
    <<"c","a","t","c","h">>, <<"w","i","t","h">>, <<"f","u","n","c","t","i","o","n">>,
    <<"r","e","t","u","r","n">>, <<"n","e","w">>, <<"t","h","r","o","w">>,
    <<"t","y","p","e","o","f">>, <<"v","o","i","d">>, <<"d","e","l","e","t","e">>,
    <<"i","n">>, <<"o","f">> }

\* Lines 672-690: the loop over the patterns and over the matches of each
RECURSIVE jsFunctionsLoop(_, _, _, _, _, _)
jsFunctionsLoop(lines, file, p, i, seen, results) ==
    IF p > Len(JsPatternKinds) THEN results
    ELSE IF i > Len(lines) THEN jsFunctionsLoop(lines, file, p + 1, 1, seen, results)
    ELSE IF lines[i].kind # JsPatternKinds[p]
    THEN jsFunctionsLoop(lines, file, p, i + 1, seen, results)
    ELSE IF lines[i].name \in jsFalsePositives
    THEN jsFunctionsLoop(lines, file, p, i + 1, seen, results)
    ELSE IF <<lines[i].name, i>> \in seen
    THEN jsFunctionsLoop(lines, file, p, i + 1, seen, results)
    ELSE jsFunctionsLoop(lines, file, p, i + 1, seen \cup {<<lines[i].name, i>>},
             Append(results, buildEntity("function", lines[i].name, lines[i].params, file)))

\* What extractJsFunctions(content, file, results) pushes
extractJsFunctions(lines, file) ==
    IF \A i \in 1..Len(lines) : lines[i].kind \notin {"function", "method"} THEN <<>>
    ELSE jsFunctionsLoop(lines, file, 1, 1, {}, <<>>)

\* What extractClassNames(content, file, results) pushes
extractClassNames(lines, file) ==
    LET found == SelectSeq(lines, LAMBDA l : l.kind = "class")
    IN  [i \in 1..Len(found) |-> buildEntity("class", found[i].name, <<>>, file)]

\* What extractCliFlags(content, file, results) pushes
extractCliFlags(lines, file) ==
    LET found == SelectSeq(lines, LAMBDA l : l.kind = "flag")
    IN  [i \in 1..Len(found) |-> buildEntity("cli-flag", found[i].name, <<>>, file)]

\* The safeExtract calls of extractEntities for a JavaScript file, in order,
\* each with the names of rule.extract that enable it
Extractors == <<
    [name |-> "JsFunctions", enabledBy |-> {"function-signatures"}],
    [name |-> "ClassNames", enabledBy |-> {"class-names"}],
    [name |-> "Endpoints", enabledBy |-> {"api-endpoints"}],
    [name |-> "GraphQLOperations", enabledBy |-> {"api-endpoints"}],
    [name |-> "WebSocketHandlers", enabledBy |-> {"api-endpoints"}],
    [name |-> "EnvVariables", enabledBy |-> {"env-variables"}],
    [name |-> "ConfigKeys", enabledBy |-> {"config-keys"}],
    [name |-> "CliFlags", enabledBy |-> {"cli-flags"}],
    [name |-> "CliCommands", enabledBy |-> {"cli-flags"}],
    [name |-> "EventHandlers", enabledBy |-> {"function-signatures", "api-endpoints"}],
    [name |-> "Components", enabledBy |-> {"function-signatures", "class-names"}],
    [name |-> "DatabaseModels", enabledBy |-> {"class-names", "config-keys"}],
    [name |-> "TestDescriptions", enabledBy |-> {"function-signatures"}] >>

\* What the extraction function of a safeExtract call pushes when it runs to
\* its end
extractorOutput(name, lines, file) ==
    IF name = "JsFunctions" THEN extractJsFunctions(lines, file)
    ELSE IF name = "ClassNames" THEN extractClassNames(lines, file)
    ELSE IF name = "CliFlags" THEN extractCliFlags(lines, file)
    ELSE <<>>

\* safeExtract(extractFn, content, file, results, extractorName), where
\* extractFn pushes out, or throws once it has pushed the first pushed of them
\* (pushed = -1: it does not throw)
safeExtract(out, results, pushed) ==
    [results |-> IF pushed = -1 THEN results \o out ELSE results \o SubSeq(out, 1, pushed),
     warned |-> pushed # -1,
     propagated |-> FALSE]

\* Where an extraction function may throw: before its first push or after it
ThrowPoints(out) == {k \in {0, 1} : k <= Len(out)}

\* Lines 556-562
ExValidate ==
    /\ exPc = "validate"
    /\ exPc' = IF validateContent(exIn.content) THEN "extract" ELSE "returned"
    /\ UNCHANGED <<exIn, exStep, exThrows, exResults, exLog, ldRun, caVars, xmVars,
                   fnVars, cvVars, ldVars, pkVars, drVars, epVars, npVars>>

\* Lines 567-629: the next safeExtract call, skipped when rule.extract does not
\* include a name that enables it
ExSafeExtract ==
    /\ exPc = "extract"
    /\ exStep < Len(Extractors)
    /\ exStep' = exStep + 1
    /\ LET extractor == Extractors[exStep + 1]
           out == extractorOutput(extractor.name, exIn.content.lines, codeFile)
       IN  IF extractor.enabledBy \cap exIn.extractList = {}
           THEN UNCHANGED <<exPc, exThrows, exResults, exLog>>
           ELSE \E pushed \in {-1} \cup (IF exThrows < MaxThrows THEN ThrowPoints(out) ELSE {}) :
                   LET call == safeExtract(out, exResults, pushed)
                   IN  /\ exResults' = call.results
                       /\ exThrows' = IF call.warned THEN exThrows + 1 ELSE exThrows
                       /\ exPc' = IF call.propagated THEN "threw" ELSE "extract"
                       /\ exLog' = Append(exLog, [extractor |-> extractor.name,
                                                  threw |-> call.warned,
                                                  matches |-> Len(out),
                                                  before |-> Len(exResults),
                                                  after |-> Len(call.results)])
    /\ UNCHANGED <<exIn, ldRun, caVars, xmVars, fnVars, cvVars, ldVars, pkVars, drVars, epVars, npVars>>

\* Line 632
ExReturn ==
    /\ exPc = "extract"
    /\ exStep = Len(Extractors)
    /\ exPc' = "returned"
    /\ UNCHANGED <<exIn, exStep, exThrows, exResults, exLog, ldRun, caVars, xmVars,
                   fnVars, cvVars, ldVars, pkVars, drVars, epVars, npVars>>

\* Contents: a value that is not a string, and texts of up to MaxLines lines,
\* alone, with a null byte after them, or followed by blanks up to the
\* maximum length or one character more; and a text of ManyLines class
\* declarations
ExContents ==
    { [isString |-> FALSE, length |-> 0, hasNull |-> FALSE, lines |-> <<>>] }
    \cup { [isString |-> TRUE, length |-> n, hasNull |-> FALSE, lines |-> lines] :
             lines \in BoundedSeqs(ExLines, 0, MaxLines),
             n \in {MAX_CONTENT_LENGTH, MAX_CONTENT_LENGTH + 1} }
    \cup { [isString |-> TRUE, length |-> textLength(lines) + IF z THEN 1 ELSE 0,
            hasNull |-> z, lines |-> lines] :
             lines \in BoundedSeqs(ExLines, 0, MaxLines), z \in BOOLEAN }
    \cup { [isString |-> TRUE, length |-> ManyLines * Len(lineText(classLine)),
            hasNull |-> FALSE, lines |-> [i \in 1..ManyLines |-> classLine]] }

ExtractLists == SUBSET {"function-signatures", "class-names", "cli-flags"}

InitEx ==
    /\ InitFnIdle
    /\ InitCv
    /\ InitLdIdle
    /\ InitPkIdle
    /\ InitDrIdle
    /\ InitEpIdle
    /\ InitNpIdle
    /\ InitLastIdle
    /\ ldRun = NoRun
    /\ exPc = "validate"
    /\ exIn \in [content : ExContents, extractList : ExtractLists]
    /\ exStep = 0
    /\ exThrows = 0
    /\ exResults = <<>>
    /\ exLog = <<>>

NextEx ==
    \/ ExValidate
    \/ ExSafeExtract
    \/ ExReturn

SpecEx == InitEx /\ [][NextEx]_vars

(***************************************************************************)
(* Properties of extractEntities                                           *)
(***************************************************************************)
\* The safeExtract calls that rule.extract enables
EnabledExtractors ==
    SelectSeq(Extractors, LAMBDA e : e.enabledBy \cap exIn.extractList # {})

\* C21: if an extraction function throws while it processes a file, it
\* contributes no fact for that file, the remaining extraction functions
\* still run, and extractEntities returns without the exception.
C21_ThrowingRuleContributesNothing ==
    /\ exPc # "threw"
    /\ \A i \in 1..Len(exLog) : exLog[i].threw => exLog[i].after = exLog[i].before
    /\ exPc = "returned" /\ validateContent(exIn.content)
           => Len(exLog) = Len(EnabledExtractors)

\* What C21 says of the control flow alone: the exception never leaves
\* extractEntities, and every enabled extraction function is called
ThrowIsContained ==
    /\ exPc # "threw"
    /\ exPc = "returned" /\ validateContent(exIn.content)
           => /\ Len(exLog) = Len(EnabledExtractors)
              /\ \A i \in 1..Len(exLog) : exLog[i].extractor = EnabledExtractors[i].name

\* C22: for content that is empty or no text, holds a null byte or is longer
\* than MAX_CONTENT_LENGTH, extractEntities returns no fact and raises no
\* error, whatever rule.extract enables.
RejectedContent(content) ==
    \/ ~content.isString
    \/ content.length = 0
    \/ content.hasNull
    \/ content.length > MAX_CONTENT_LENGTH

C22_RejectedContentYieldsNothing ==
    /\ exPc # "threw"
    /\ RejectedContent(exIn.content) /\ exPc # "validate"
           => exPc = "returned" /\ exResults = <<>> /\ exLog = <<>>

\* extractEntities returned for a file with a null byte after a function
\* declaration, under a rule that extracts function signatures
C22_Witness ==
    /\ exPc = "returned"
    /\ exIn.content.hasNull
    /\ exIn.content.lines # <<>>
    /\ exIn.content.lines[1].kind = "function"
    /\ "function-signatures" \in exIn.extractList
    /\ exResults = <<>>

\* C23: the facts extracted from one file never hold two facts with the same
\* name and the same kind.
C23_NoDuplicateFacts ==
    \A i, j \in 1..Len(exResults) :
        exResults[i].name = exResults[j].name /\ exResults[i].type = exResults[j].type
            => i = j

\* What the seen set of extractJsFunctions does ensure: no two function facts
\* of the same name from the same line, though two patterns match the line
NoDuplicateFromOneLine ==
    (exPc = "returned" /\ validateContent(exIn.content) /\ exThrows = 0
        /\ "function-signatures" \in exIn.extractList)
        => Len(SelectSeq(exResults, LAMBDA e : e.type = "function"))
               = Len(SelectSeq(exIn.content.lines,
                               LAMBDA l : l.kind \in {"function", "method"}
                                          /\ l.name \notin jsFalsePositives))

\* C24: no extraction pattern contributes more than 1000 matches for a file.
DEFAULT_MAX_MATCHES == 1000
C24_MatchesPerPatternCapped ==
    \A i \in 1..Len(exLog) : exLog[i].after - exLog[i].before <= DEFAULT_MAX_MATCHES

(***************************************************************************)
(* The findings of a run of detectDocsDrift or of detectLogicDrift         *)
(*                                                                         *)
(* A run of either detector: runDocsRule for a rule that scans its changed *)
(* code files, with the LLM analysis, or detectLogicDrift over rules whose *)
(* file patterns are given by the paths they match.                        *)
(***************************************************************************)
MaxLgCmps == 1
policyFile == "docs/policy.md"
readmeFile == "README.md"
LgFiles == {ruleFile, policyFile, readmeFile}

\* Lines 3242-3266 with the policy patterns tested on the files of the
\* repository where the changed files are meant
lgRuleRepoOnly(codeFiles, policyFiles, run, n) ==
    [matched |-> run.changedFiles \cap codeFiles # {},
     policyExists |-> run.repoFiles \cap policyFiles # {},
     policyChanged |-> run.repoFiles \cap policyFiles # {},
     comparisons |-> n,
     policyFiles |-> policyFiles]

\* Lines 3237-3266: what detectLogicDrift finds for a rule whose codeFiles
\* patterns match the paths codeFiles and whose policyFiles patterns match the
\* paths policyFiles: matchedFiles, findFiles(repoRoot, policyPatterns) and
\* changedPolicyFiles are empty or not
lgRule(codeFiles, policyFiles, run, n) ==
    [matched |-> run.changedFiles \cap codeFiles # {},
     policyExists |-> run.repoFiles \cap policyFiles # {},
     policyChanged |-> run.changedFiles \cap policyFiles # {},
     comparisons |-> n,
     policyFiles |-> policyFiles]

\* Rules over the refund code: without policy patterns, with the policy file,
\* and with the policy file and the README
LgRules(run) ==
    { lgRule({ruleFile}, policyFiles, run, n) :
        policyFiles \in {{}, {policyFile}, {policyFile, readmeFile}}, n \in 0..MaxLgCmps }

\* Runs: nothing changed, or the refund code alone, with the README or with
\* the policy file, in a repository that holds the three files
LgRuns ==
    [changedFiles : {{}, {ruleFile}, {ruleFile, readmeFile}, {ruleFile, policyFile}},
     repoFiles : {LgFiles}]

\* config.llm.enabled with a client, and config.output.severity.logicDrift:
\* "error", "Info", "loud"
LgConfigs == [useLLM : BOOLEAN, severity : {sError, <<"I","n","f","o">>, <<"l","o","u","d">>}]

\* comparison.severity: absent, "Critical", "high"
LgSeverityTexts == { <<>>, <<"C","r","i","t","i","c","a","l">>, <<"h","i","g","h">> }

\* Patterns of a comparison: one that compiles, one that does not
LgCodePatterns ==
    { [NoPattern EXCEPT !.kind = "regex"], [NoPattern EXCEPT !.kind = "invalid"] }
LgPolicyPatterns == { [NoPattern EXCEPT !.kind = "regex"] }

\* Responses of the docs LLM: disabled; no JSON; no drift; a drift with an
\* unknown severity; one with the severity "CRITICAL" and a file only; one
\* without explanation, suggestion and file; a null drift
DocsLlmResponses ==
    { NoDocsLlm,
      [enabled |-> TRUE, parsed |-> FALSE, drifts |-> <<>>],
      [enabled |-> TRUE, parsed |-> TRUE, drifts |-> <<>>],
      [enabled |-> TRUE, parsed |-> TRUE,
       drifts |-> << [NoDrift EXCEPT !.severity = <<"l","o","u","d">>,
                                     !.explanation = <<"x">>] >>],
      [enabled |-> TRUE, parsed |-> TRUE,
       drifts |-> << [NoDrift EXCEPT !.type = "stale", !.file = codeFile,
                                     !.severity = <<"C","R","I","T","I","C","A","L">>] >>],
      [enabled |-> TRUE, parsed |-> TRUE, drifts |-> << NoDrift >>],
      [enabled |-> TRUE, parsed |-> TRUE, drifts |-> << [NoDrift EXCEPT !.null = TRUE] >>] }

\* Rules of the docs detector that scan their changed code files, and
\* repositories in which those and a documentation file changed
DtDocsRules ==
    { r \in DrRules : /\ r.hasDocPatterns
                      /\ r.fullScan = "false"
                      /\ r.fullScanMaxFiles = 1
                      /\ r.extractFunctions
                      /\ r.maxEntities = 0 }
DtDocsRepos ==
    { r \in DrRepos : r.changedFiles # {} /\ r.changedFiles = r.codeFiles /\ r.changedDocs }

\* The event entities of the scanned files: none, "Event: click", and "click"
\* next to "Event: Click"; the docs name no event, or the event click
DtEventLists ==
    { <<>>,
      << [name |-> <<"E","v","e","n","t",":"," ","c","l","i","c","k">>, file |-> codeFile] >>,
      << [name |-> <<"c","l","i","c","k">>, file |-> codeFile],
         [name |-> <<"E","v","e","n","t",":"," ","C","l","i","c","k">>, file |-> codeFile] >> }
DtDocsTexts == { <<>>, <<"o","n"," ","C","l","i","c","k">> }

InitDt ==
    /\ InitFnIdle
    /\ InitCv
    /\ InitPkIdle
    /\ InitEpIdle
    /\ InitNpIdle
    /\ InitExIdle
    /\ InitLastIdle
    /\ \/ /\ InitLdIdle
          /\ ldRun = NoRun
          /\ drPc = "start"
          /\ drRule \in DtDocsRules
          /\ drRepo \in DtDocsRepos
          /\ drScan = NoScan
          /\ drEntities = <<>>
       \/ /\ InitDrIdle
          /\ InitLdAt("rule")
          /\ ldConfig \in LgConfigs
          /\ ldRun \in LgRuns

NextDt ==
    \/ DrResolve
    \/ DrExtract
    \/ DrFindDocs
    \/ DrCompare(DtEventLists, DtDocsTexts)
    \/ DrFinish(DocsLlmResponses)
    \/ RuleNext(LgRules(ldRun))
    \/ FetchDiff
    \/ ReadPolicy
    \/ CallComparisons
    \/ CmpNext(LgCodePatterns, LgPolicyPatterns)
    \/ BuildCodeRegex
    \/ BuildPolicyRegex
    \/ ExtractCode({<<>>, << <<"7">> >>}, {<< <<"3","0">> >>})
    \/ Evaluate({<<>>}, {<<>>}, LgSeverityTexts, {<<>>})
    \/ CmpReturn
    \/ LlmAnalysis(LlmResponses)
    \/ LdReturn

SpecDt == InitDt /\ [][NextDt]_vars

(***************************************************************************)
(* Properties of the findings of a run                                     *)
(***************************************************************************)
LlmSources == {"docs-drift-llm", "logic-drift-llm"}

FlagFollowsSource(results) ==
    \A i \in 1..Len(results) :
        results[i].deterministic <=> results[i].source \notin LlmSources

FlagsKept(before, after) ==
    \A i \in 1..Len(before) :
        i <= Len(after) => after[i].deterministic = before[i].deterministic

\* C25: every finding of detectDocsDrift and of detectLogicDrift carries a
\* deterministic flag that is false exactly when its source is docs-drift-llm
\* or logic-drift-llm, and no later step, the tagging with the rule's name
\* included, changes the flag of a finding.
C25_DeterministicFlagBySource ==
    /\ [](FlagFollowsSource(fnResults) /\ FlagFollowsSource(ldResults)
            /\ FlagFollowsSource(ldCmpResults))
    /\ [][FlagsKept(fnResults, fnResults') /\ FlagsKept(ldResults, ldResults')]_vars

\* runDocsRule returned a deterministic finding and an LLM finding, both
\* tagged with the rule's name
C25_Witness ==
    /\ drPc = "returned"
    /\ \E i, j \in 1..Len(fnResults) :
          /\ "rule" \in DOMAIN fnResults[i]
          /\ "rule" \in DOMAIN fnResults[j]
          /\ fnResults[i].deterministic
          /\ ~fnResults[j].deterministic
          /\ fnResults[j].source = "docs-drift-llm"
          /\ fnResults[i].rule = <<"a", "p", "i">>
          /\ fnResults[j].rule = <<"a", "p", "i">>

\* The severity a text stands for, or <<>>
KnownSeverity(text) ==
    IF toLowerCase(text) \in Severities THEN toLowerCase(text) ELSE <<>>

\* A severity outside the set replaced by the default, and that by the last
\* resort when it is outside the set too
Replaced(text, default, lastResort) ==
    IF KnownSeverity(text) # <<>> THEN KnownSeverity(text)
    ELSE IF KnownSeverity(default) # <<>> THEN KnownSeverity(default)
    ELSE lastResort

SeveritiesInSet ==
    /\ \A i \in 1..Len(fnResults) : fnResults[i].severity \in Severities
    /\ \A i \in 1..Len(ldResults) : ldResults[i].severity \in Severities
    /\ \A i \in 1..Len(ldCmpResults) : ldCmpResults[i].severity \in Severities

\* The findings of the comparisons carry the comparison's severity, and the
\* deterministic findings of the docs detector the configured one
DefaultsApplied ==
    /\ \A i \in 1..Len(ldLast.pushed) :
          ldLast.pushed[i].severity = Replaced(ldLast.severityText, ldConfig.severity, sWarning)
    /\ \A i \in 1..Len(fnResults) :
          (fnResults[i].source = "docs-drift" /\ fnResults[i].type # "event-missing-doc")
              => fnResults[i].severity = Replaced(fnArgs.severity, <<>>, sWarning)

\* C26 as stated: the severity of every finding is info, warning, error or
\* critical; a severity outside the set is replaced by the configured default,
\* and an unknown default by warning.
C26_UnknownSeverityToDefaultOrWarning ==
    /\ SeveritiesInSet
    /\ DefaultsApplied
    /\ \A i \in 1..Len(ldResults) :
          ldResults[i].type = "policy-not-updated"
              => ldResults[i].severity = Replaced(ldConfig.severity, <<>>, sWarning)
    /\ \A i \in 1..Len(fnResults) :
          fnResults[i].type = "event-missing-doc"
              => fnResults[i].severity = Replaced(fnArgs.severity, <<>>, sWarning)

\* C26, amended: the severity of every finding is info, warning, error or
\* critical; a per-comparison or LLM-supplied severity outside the set is
\* replaced by the configured default; an unknown configured default is
\* replaced by warning, except in policy-not-updated findings, where it is
\* replaced by error, and in event-missing-doc findings, where it is replaced
\* by info.
C26_UnknownSeverityToDefault ==
    /\ SeveritiesInSet
    /\ DefaultsApplied
    /\ \A i \in 1..Len(fnResults) :
          fnResults[i].type = "event-missing-doc"
              => fnResults[i].severity = Replaced(fnArgs.severity, <<>>, sInfo)
    /\ \A i \in 1..Len(ldResults) :
          /\ ldResults[i].type = "policy-not-updated"
                => ldResults[i].severity = Replaced(ldConfig.severity, <<>>, sError)
          /\ ldResults[i].type = "policy-contradiction"
                => \/ ldResults[i].severity = sCritical
                   \/ ldResults[i].severity = Replaced(<<>>, ldConfig.severity, sWarning)

\* Under the configured severity "loud" the docs run returned an
\* event-missing-doc finding, of severity info
EventFallsBackToInfo ==
    /\ drPc = "returned"
    /\ fnArgs.severity = <<"l","o","u","d">>
    /\ \E i \in 1..Len(fnResults) :
          fnResults[i].type = "event-missing-doc" /\ fnResults[i].severity = sInfo

\* Under the configured severity "loud" a comparison with the severity "high"
\* pushed a finding after the rule pushed policy-not-updated
C26_Witness ==
    /\ ldConfig.severity = <<"l","o","u","d">>
    /\ ldLast.severityText = <<"h","i","g","h">>
    /\ Len(ldLast.pushed) > 0
    /\ \E i \in 1..Len(ldResults) : ldResults[i].type = "policy-not-updated"

\* C27: for a rule with a changed code file and an existing policy file,
\* detectLogicDrift pushes a policy-not-updated finding if and only if no
\* changed file matches the rule's policy-file patterns.
C27_PolicyNotUpdatedIffNoPolicyChange ==
    [][(ldRuleIdx' = ldRuleIdx + 1 /\ ldRule'.matched /\ ldRule'.policyExists)
          => IF ldRun.changedFiles \cap ldRule'.policyFiles = {}
             THEN /\ Len(ldResults') = Len(ldResults) + 1
                  /\ ldResults'[Len(ldResults')].type = "policy-not-updated"
                  /\ SubSeq(ldResults', 1, Len(ldResults)) = ldResults
             ELSE ldResults' = ldResults]_vars

\* The README changed with the refund code, and the rule, whose policy
\* patterns match the policy file alone, pushed policy-not-updated
C27_Witness ==
    /\ ldPc = "diff"
    /\ ldRun.changedFiles = {ruleFile, readmeFile}
    /\ ldRule.policyFiles = {policyFile}
    /\ ldResults # <<>>
    /\ ldResults[Len(ldResults)].type = "policy-not-updated"

(***************************************************************************)
(* The allowlist of a run of comparePayloadKeyRenames                      *)
(***************************************************************************)
\* What finalizeHunk declares for the keys of a hunk with the allowlist as
\* compileAllowlist returns it, every matcher at lastIndex 0
declaredAfresh(hunk, allowlist) ==
    finalizeHunk(hunk.removed, hunk.added, <<>>, compileAllowlist(allowlist)).declared

\* C30: whether a hunk yields a rename candidate depends only on its removed
\* and added keys and on the configured allowlist entries, not on the keys
\* tested against the allowlist earlier in the run: every finalized hunk
\* declares what the freshly compiled allowlist declares for its keys.
C30_CandidateIndependentOfEarlierTests ==
    [][pkHunkIdx' = pkHunkIdx + 1
         => pkHunk'.declared = declaredAfresh(pkHunk', pkConfig.allowlist)]_vars

(***************************************************************************)
(* Cache (utils/cache.js)                                                  *)
(*                                                                         *)
(* One source file, reached under two spellings of its path, in the       *)
(* default namespace. The file is what fs.statSync reports of it: mtimeMs  *)
(* and size, or NoFile when it does not exist. The data a caller stores is *)
(* a number from 1 to MaxData.                                             *)
(***************************************************************************)
MaxMtime == 2
MaxSize == 1
MaxData == 2

CaPaths == {"a.js", "./a.js"}
CaStats == [mtimeMs : 1..MaxMtime, size : 0..MaxSize]

\* path.normalize(filePath)
pathNormalize(filePath) == IF filePath = "./a.js" THEN "a.js" ELSE filePath

\* generateKey(filePath, namespace): the text that is hashed
generateKey(filePath, namespace) == <<namespace, pathNormalize(filePath)>>

\* getFileHash(filePath): `${stats.mtimeMs}-${stats.size}`, null (NoFile) when
\* the file does not exist
getFileHash(file) == IF file = NoFile THEN NoFile ELSE <<file.mtimeMs, "-", file.size>>

\* isValid(filePath, cacheEntry): currentHash && currentHash === cacheEntry.hash
isValid(file, cacheEntry) ==
    getFileHash(file) # NoFile /\ getFileHash(file) = cacheEntry.hash

\* get(filePath, namespace): [data, mem, disk]
cacheGet(key, file, mem, disk, readable) ==
    LET miss == [data |-> NoData, mem |-> mem, disk |-> disk]
    IN  IF mem[key] # NoData THEN [miss EXCEPT !.data = mem[key]]
        ELSE IF disk[key] = NoEntry THEN miss
        ELSE IF ~readable THEN miss
        ELSE IF ~isValid(file, disk[key]) THEN [miss EXCEPT !.disk[key] = NoEntry]
        ELSE [data |-> disk[key].data, mem |-> [mem EXCEPT ![key] = disk[key].data],
              disk |-> disk]

\* new Cache(): the in-memory cache of a new process is empty, the cache
\* directory is kept
CaNew ==
    /\ caMem' = [k \in CaKeys |-> NoData]
    /\ caOut' = [NoOut EXCEPT !.op = "new"]
    /\ UNCHANGED <<caEnabled, caFile, caDisk, caStored,
                   fnVars, cvVars, ldVars, pkVars, drVars, epVars, npVars, exVars, ldRun, xmVars>>

\* get(filePath, namespace); readable is whether the cache file is read and
\* parsed without an error
CaGet ==
    \E filePath \in CaPaths, namespace \in CaNamespaces, readable \in BOOLEAN :
        LET key == generateKey(filePath, namespace)
            out == cacheGet(key, caFile, caMem, caDisk, readable)
        IN  /\ IF caEnabled
               THEN /\ caMem' = out.mem
                    /\ caDisk' = out.disk
                    /\ caOut' = [op |-> "get", key |-> key, data |-> out.data]
               ELSE /\ UNCHANGED <<caMem, caDisk>>
                    /\ caOut' = [op |-> "get", key |-> key, data |-> NoData]
            /\ UNCHANGED <<caEnabled, caFile, caStored,
                           fnVars, cvVars, ldVars, pkVars, drVars, epVars, npVars, exVars,
                           ldRun, xmVars>>

\* set(filePath, namespace, data); written is whether fs.writeFileSync succeeded
CaSet ==
    \E filePath \in CaPaths, namespace \in CaNamespaces, data \in 1..MaxData,
       written \in BOOLEAN :
        LET key == generateKey(filePath, namespace)
            cacheEntry == [hash |-> getFileHash(caFile), data |-> data]
        IN  /\ caOut' = [op |-> "set", key |-> key, data |-> NoData]
            /\ IF caEnabled
               THEN /\ caMem' = [caMem EXCEPT ![key] = data]
                    /\ caDisk' = IF written THEN [caDisk EXCEPT ![key] = cacheEntry]
                                 ELSE caDisk
                    /\ caStored' = [caStored EXCEPT ![key][data] = getFileHash(caFile)]
               ELSE UNCHANGED <<caMem, caDisk, caStored>>
            /\ UNCHANGED <<caEnabled, caFile,
                           fnVars, cvVars, ldVars, pkVars, drVars, epVars, npVars, exVars,
                           ldRun, xmVars>>

\* clear(): the in-memory cache and, when the cache is enabled, every cache file
CaClear ==
    /\ caMem' = [k \in CaKeys |-> NoData]
    /\ caDisk' = IF caEnabled THEN [k \in CaKeys |-> NoEntry] ELSE caDisk
    /\ caOut' = [NoOut EXCEPT !.op = "clear"]
    /\ UNCHANGED <<caEnabled, caFile, caStored,
                   fnVars, cvVars, ldVars, pkVars, drVars, epVars, npVars, exVars, ldRun, xmVars>>

\* The source file is written, touched, created or deleted
CaModifyFile ==
    /\ \E file \in CaStats \cup {NoFile} :
         /\ file # caFile
         /\ caFile' = file
    /\ caOut' = [NoOut EXCEPT !.op = "modify"]
    /\ UNCHANGED <<caEnabled, caMem, caDisk, caStored,
                   fnVars, cvVars, ldVars, pkVars, drVars, epVars, npVars, exVars, ldRun, xmVars>>

InitCa ==
    /\ InitFnIdle
    /\ InitCv
    /\ InitLdIdle
    /\ InitPkIdle
    /\ InitDrIdle
    /\ InitEpIdle
    /\ InitNpIdle
    /\ InitExIdle
    /\ InitXmIdle
    /\ ldRun = NoRun
    /\ caEnabled \in BOOLEAN
    /\ caFile \in CaStats \cup {NoFile}
    /\ caMem = [k \in CaKeys |-> NoData]
    /\ caDisk = [k \in CaKeys |-> NoEntry]
    /\ caOut = [NoOut EXCEPT !.op = "new"]
    /\ caStored = [k \in CaKeys |-> [d \in 1..MaxData |-> NoFile]]

NextCa ==
    \/ CaNew
    \/ CaGet
    \/ CaSet
    \/ CaClear
    \/ CaModifyFile

SpecCa == InitCa /\ [][NextCa]_vars

(***************************************************************************)
(* Properties of the cache                                                 *)
(***************************************************************************)
\* get has just returned data
GetReturned == caOut.op = "get" /\ caOut.data # NoData

\* C28: get never returns data stored for a file whose mtime/size fingerprint
\* differs now from the fingerprint recorded when the data was stored.
C28_GetNeverReturnsStaleData ==
    GetReturned => caStored[caOut.key][caOut.data] = getFileHash(caFile)

\* The data get returns from a cache file was stored under the file's present
\* fingerprint: a get that finds nothing in memory validates the entry
DiskEntriesAreValidated ==
    [][(caOut'.op = "get" /\ caOut'.data # NoData /\ caEnabled /\ caMem[caOut'.key] = NoData)
         => caDisk[caOut'.key].hash = getFileHash(caFile)]_vars

(***************************************************************************)
(* extractMatches, one regex.exec at a time (logicDrift.js)                *)
(*                                                                         *)
(* The pattern is the letter a under a quantifier: a, a*, a+ or a?, with   *)
(* the g and y flags or without them; the text is made of the letters a    *)
(* and b. Indexes are those of JavaScript, from 0.                         *)
(***************************************************************************)
MaxText == 3
MaxValues == MaxText + 2

Quantifiers == {"one", "star", "plus", "optional"}

RECURSIVE TextsUpTo(_)
TextsUpTo(n) ==
    IF n = 0 THEN {<<>>}
    ELSE TextsUpTo(n - 1)
         \cup { Append(t, c) : t \in { u \in TextsUpTo(n - 1) : Len(u) = n - 1 }, c \in {"a", "b"} }

\* The number of letters a in a row from index p of the text
RECURSIVE runOfA(_, _)
runOfA(text, p) ==
    IF p >= Len(text) \/ text[p + 1] # "a" THEN 0 ELSE 1 + runOfA(text, p + 1)

\* The pattern tried at index p: [matched, end]
matchAt(quant, text, p) ==
    LET n == runOfA(text, p)
    IN  IF quant = "star" THEN [matched |-> TRUE, end |-> p + n]
        ELSE IF quant = "optional" THEN [matched |-> TRUE, end |-> p + (IF n > 0 THEN 1 ELSE 0)]
        ELSE IF quant = "plus" THEN [matched |-> n > 0, end |-> p + n]
        ELSE [matched |-> n > 0, end |-> p + 1]

\* regex.exec(text): [null, index, end, regex]. The search starts at lastIndex
\* when the regex is global or sticky, a sticky regex matches at lastIndex
\* only, and lastIndex becomes the end of the match, or 0 when there is none
regexExec(regex, text) ==
    LET from == IF regex.global \/ regex.sticky THEN regex.lastIndex ELSE 0
        tried == IF regex.sticky THEN {from} ELSE from..Len(text)
        found == { p \in tried : p <= Len(text) /\ matchAt(regex.quant, text, p).matched }
        first == CHOOSE p \in found : \A q \in found : p <= q
        end == matchAt(regex.quant, text, first).end
    IN  IF found = {}
        THEN [null |-> TRUE, index |-> 0, end |-> 0,
              regex |-> [regex EXCEPT !.lastIndex = IF regex.global \/ regex.sticky THEN 0 ELSE @]]
        ELSE [null |-> FALSE, index |-> first, end |-> end,
              regex |-> [regex EXCEPT !.lastIndex = IF regex.global \/ regex.sticky THEN end ELSE @]]

\* The pattern as buildRegex compiles it: the match of the last probe string,
\* thirty letters a and a letter b, ends at 30 or at 1
XmCompiled(pattern) ==
    CompiledRegex([kind |-> "regex", probeMs |-> pattern.probeMs, global |-> pattern.global,
                   sticky |-> pattern.sticky,
                   probeEnd |-> IF pattern.quant \in {"star", "plus"} THEN 30 ELSE 1])

\* buildRegex(pattern, flags) and validateRegexSafety
XmBuild ==
    /\ xmPc = "build"
    /\ LET built == validateRegexSafety(XmCompiled(xmIn.pattern))
       IN  /\ xmPc' = IF built.threw THEN "threw" ELSE "loop"
           /\ xmRegex' = [quant |-> xmIn.pattern.quant, global |-> built.regex.global,
                          sticky |-> built.regex.sticky, lastIndex |-> built.regex.lastIndex]
    /\ UNCHANGED <<xmIn, xmValues, caVars,
                   fnVars, cvVars, ldVars, pkVars, drVars, epVars, npVars, exVars, ldRun>>

\* Lines 3508-3514: one turn of the while loop of extractMatches
XmExec ==
    /\ xmPc = "loop"
    /\ Len(xmValues) < MaxValues
    /\ LET match == regexExec(xmRegex, xmIn.text)
       IN  /\ xmRegex' = match.regex
           /\ xmValues' = IF match.null THEN xmValues
                          ELSE Append(xmValues, trim(SubSeq(xmIn.text, match.index + 1, match.end)))
           /\ xmPc' = IF match.null \/ ~xmRegex.global THEN "returned" ELSE "loop"
    /\ UNCHANGED <<xmIn, caVars,
                   fnVars, cvVars, ldVars, pkVars, drVars, epVars, npVars, exVars, ldRun>>

XmPatterns == [quant : Quantifiers, global : BOOLEAN, sticky : BOOLEAN,
               probeMs : {MAX_REGEX_TIME_MS, MAX_REGEX_TIME_MS + 1}]

InitXm ==
    /\ InitFnIdle
    /\ InitCv
    /\ InitLdIdle
    /\ InitPkIdle
    /\ InitDrIdle
    /\ InitEpIdle
    /\ InitNpIdle
    /\ InitExIdle
    /\ InitCaIdle
    /\ ldRun = NoRun
    /\ xmPc = "build"
    /\ xmIn \in [pattern : XmPatterns, text : TextsUpTo(MaxText)]
    /\ xmRegex = NoRegExp
    /\ xmValues = <<>>

NextXm ==
    \/ XmBuild
    \/ XmExec

SpecXm == InitXm /\ [][NextXm]_vars

(***************************************************************************)
(* Properties of extractMatches                                            *)
(***************************************************************************)
\* C29: for a pattern validateRegexSafety accepted, on each turn of the loop
\* of extractMatches over a global pattern the match position strictly
\* advances (so that the loop ends and the list of values is finite).
C29_MatchPositionAdvances ==
    [][(xmPc = "loop" /\ xmPc' = "loop" /\ xmRegex.global)
         => xmRegex'.lastIndex > xmRegex.lastIndex]_vars

\* A turn of the loop that matched a letter at least moved the position on
NonEmptyMatchAdvances ==
    [][(xmPc = "loop" /\ xmPc' = "loop" /\ xmValues'[Len(xmValues')] # <<>>)
         => xmRegex'.lastIndex > xmRegex.lastIndex]_vars

\* A turn of the loop left the regex as it found it and goes on: every later
\* turn pushes the same value again
LoopRepeats ==
    /\ xmPc = "loop"
    /\ xmValues # <<>>
    /\ ~regexExec(xmRegex, xmIn.text).null
    /\ regexExec(xmRegex, xmIn.text).regex = xmRegex

====
